---- MODULE Spec2Model ----
(***************************************************************************)
(* Model of the upstream access-control plane of personio-mcp:             *)
(*   PersonioAuth   (src/api/auth.ts)        credential lifecycle          *)
(*   RateLimiter    (src/utils/rateLimiter.ts) throttle over p-queue       *)
(*   CacheManager   (src/utils/cache.ts)     TTL cache over node-cache     *)
(*   formatError    (src/utils/errors.ts)    error normalisation           *)
(*   tool handlers  (src/tools/*.ts), PersonioClient (src/api/client.ts)   *)
(* Time is the millisecond clock Date.now(); it advances in steps of       *)
(* TickMs.  JavaScript `undefined` is the empty tuple, a present value x   *)
(* is the one-element tuple <<x>>.                                         *)
(***************************************************************************)
EXTENDS Integers, Sequences, FiniteSets, TLC

\* ------------------------------------------------------------------ bounds
NumCallers == 2
MaxGrants == 2
MaxTicks == 3
MaxTasks == 4
MaxParams == 2
MaxCalls == 2

\* ------------------------------------------------------- program constants
SafetyMarginS == 300
MsPerSecond == 1000

\* one clock step, and the instant the model starts at
TickMs == 30 * MsPerSecond
StartMs == 600 * MsPerSecond

Undefined == <<>>
Some(x) == <<x>>
Val(o) == o[1]

Callers == 1..NumCallers
Tasks == 1..MaxTasks
MaxNow == StartMs + MaxTicks * TickMs

\* lifetimes (seconds) the authorization endpoint may serve
ExpiresInValues == {300, 360}

VARIABLES
  now,            \* Date.now()
  \* ---- PersonioAuth
  apiKey,         \* this.apiKey
  clientId,       \* this.clientId
  clientSecret,   \* this.clientSecret
  accessToken,    \* this.accessToken
  tokenExpiry,    \* this.tokenExpiry (ms)
  pcAuth,         \* per caller of getAuthHeaders: "idle" | "posting" | "returned"
  authResult,     \* per caller: what getAuthHeaders settled with
  pcRevoke,       \* revokeToken: "idle" | "posting"
  revokeResult,   \* how the last revokeToken settled
  grantRequests,  \* number of POST /v2/auth/token issued so far
  grantLog        \* token -> [issuedAt, expires_in] of the grant response that carried it

VARIABLES
  \* ---- RateLimiter and the PQueue it owns
  requestsPerMinute, \* this.requestsPerMinute
  burstLimit,        \* this.burstLimit
  queue,             \* PQueue: the waiting jobs, in submission order
  pending,           \* PQueue: count of jobs started and not yet settled
  intervalCount,     \* PQueue: jobs started in the running interval
  intervalId,        \* PQueue: TRUE while its setInterval timer is armed
  intervalDue,       \* instant at which that timer fires next
  intervalEnd,       \* PQueue: end of the interval, as set when the timer was armed
  timeoutId,         \* PQueue: TRUE while its resume setTimeout is armed
  timeoutDue,        \* instant at which that timer fires
  taskState,         \* per task: "new" | "queued" | "running" | "resolved" | "rejected" | "dropped"
  startLog,          \* per task: <<>> or <<[at, win, seq, waited]>>: instant, window and rank of its start
  windowLog          \* the instants at which the interval counter was reset, in order

throttleVars == <<requestsPerMinute, burstLimit, queue, pending, intervalCount,
                  intervalId, intervalDue, intervalEnd, timeoutId, timeoutDue,
                  taskState, startLog, windowLog>>

VARIABLES
  \* ---- CacheManager and the NodeCache it owns
  employeesTTL,      \* this.config.employeesTTL (seconds)
  organizationTTL,   \* this.config.organizationTTL
  policiesTTL,       \* this.config.policiesTTL
  cacheData,         \* NodeCache data: key -> [v, t], t the expiry instant (0: never)
  lastGet,           \* what the last direct get/has call returned
  setLog             \* key -> [at, ttl, arg]: instant and lifetime (s) of the last set of
                     \* the key, and the ttl argument of that call

cacheVars == <<employeesTTL, organizationTTL, policiesTTL, cacheData, lastGet, setLog>>

VARIABLES
  \* ---- cache key generators applied to two parameter objects
  keyParams,         \* the two parameter objects, each a tuple of <<name, value>> in insertion order
  keyOut             \* <<>> or the two keys generated for them

keyVars == <<keyParams, keyOut>>

VARIABLES
  \* ---- formatError applied to a thrown value
  errRaised,         \* the value as first thrown
  errThrown,         \* the value formatError is given (after the client's interceptor, if it ran)
  errOut,            \* <<>> or <<what formatError returned>>
  errPath            \* the places that made an error object for this failure, in order

errVars == <<errRaised, errThrown, errOut, errPath>>

VARIABLES
  \* ---- tool calls on the PersonioMCPServer and on the tool classes it owns
  callOp,            \* per call: <<>> or <<[entry, name, args]>>
  pcCall,            \* per call: "idle" | "admitted" | "served" | "done"
  served,            \* per call: <<>> or <<the upstream's answer, still on its way back>>
  callResult,        \* per call: <<>> or <<what the caller got>>
  upstream           \* the upstream's data: a revision counter per entity

callVars == <<callOp, pcCall, served, callResult, upstream>>

authVars == <<apiKey, clientId, clientSecret, accessToken, tokenExpiry, pcAuth,
              authResult, pcRevoke, revokeResult, grantRequests, grantLog>>

vars == <<now, authVars, throttleVars, cacheVars, keyVars, errVars, callVars>>

\* --------------------------------------------------------------- the clock
Tick ==
  /\ now + TickMs <= MaxNow
  /\ now' = now + TickMs

\* ============================================================ PersonioAuth
NoResult == [kind |-> "none"]

\* auth.ts:27-31
ApiKeyHeaders == [kind |-> "apiKey", appId |-> Val(apiKey)]

\* auth.ts:36-40
BearerHeaders(token, reused) ==
  [kind |-> "bearer", token |-> token, reused |-> reused, at |-> now]

AuthFailure(message) == [kind |-> "error", message |-> message, at |-> now]

\* the validity test with the comparison turned around to >=
TokenValid_Inclusive ==
  /\ accessToken # Undefined
  /\ tokenExpiry # Undefined
  /\ Val(tokenExpiry) >= now

\* auth.ts:45  this.accessToken && this.tokenExpiry && this.tokenExpiry > new Date()
TokenValid ==
  /\ accessToken # Undefined
  /\ tokenExpiry # Undefined
  /\ Val(tokenExpiry) > now

\* the expiry computed without the safety margin
ExpiryFor_NoMargin(issuedAt, expires_in) ==
  issuedAt + expires_in * MsPerSecond

\* the expiry with the margin taken off as milliseconds
ExpiryFor_MarginInMs(issuedAt, expires_in) ==
  issuedAt + expires_in * MsPerSecond - SafetyMarginS

\* auth.ts:76  new Date(Date.now() + (expires_in - 300) * 1000)
ExpiryFor(issuedAt, expires_in) ==
  issuedAt + (expires_in - SafetyMarginS) * MsPerSecond

AuthInit ==
  /\ apiKey \in {Undefined, Some("test-api-key")}
  /\ clientId \in {Undefined, Some("test-client-id")}
  /\ clientSecret \in {Undefined, Some("test-client-secret")}
  /\ accessToken = Undefined
  /\ tokenExpiry = Undefined
  /\ pcAuth = [c \in Callers |-> "idle"]
  /\ authResult = [c \in Callers |-> NoResult]
  /\ pcRevoke = "idle"
  /\ revokeResult = "none"
  /\ grantRequests = 0
  /\ grantLog = <<>>

\* a getAuthHeaders that asks for a token before it looks at the static key
GetAuthHeadersApiKey_TokenFirst(c) ==
  /\ pcAuth[c] = "idle"
  /\ apiKey # Undefined
  /\ grantRequests < MaxGrants
  /\ grantRequests' = grantRequests + 1
  /\ authResult' = [authResult EXCEPT ![c] = ApiKeyHeaders]
  /\ pcAuth' = [pcAuth EXCEPT ![c] = "returned"]
  /\ UNCHANGED <<now, apiKey, clientId, clientSecret, accessToken, tokenExpiry,
                 pcRevoke, revokeResult, grantLog>>

\* getAuthHeaders with a static key (auth.ts:25-32)
GetAuthHeadersApiKey(c) ==
  /\ pcAuth[c] = "idle"
  /\ apiKey # Undefined
  /\ authResult' = [authResult EXCEPT ![c] = ApiKeyHeaders]
  /\ pcAuth' = [pcAuth EXCEPT ![c] = "returned"]
  /\ UNCHANGED <<now, apiKey, clientId, clientSecret, accessToken, tokenExpiry,
                 pcRevoke, revokeResult, grantRequests, grantLog>>

\* getAuthHeaders -> getAccessToken, stored token still valid (auth.ts:35-40, 45-47)
GetAuthHeadersReuse(c) ==
  /\ pcAuth[c] = "idle"
  /\ apiKey = Undefined
  /\ TokenValid
  /\ authResult' = [authResult EXCEPT ![c] = BearerHeaders(Val(accessToken), TRUE)]
  /\ pcAuth' = [pcAuth EXCEPT ![c] = "returned"]
  /\ UNCHANGED <<now, apiKey, clientId, clientSecret, accessToken, tokenExpiry,
                 pcRevoke, revokeResult, grantRequests, grantLog>>

\* getAccessToken without credentials (auth.ts:50-52)
GetAuthHeadersNoCredentials(c) ==
  /\ pcAuth[c] = "idle"
  /\ apiKey = Undefined
  /\ ~TokenValid
  /\ clientId = Undefined \/ clientSecret = Undefined
  /\ authResult' = [authResult EXCEPT ![c] =
        AuthFailure("Client ID and Client Secret are required for OAuth2 authentication")]
  /\ pcAuth' = [pcAuth EXCEPT ![c] = "returned"]
  /\ UNCHANGED <<now, apiKey, clientId, clientSecret, accessToken, tokenExpiry,
                 pcRevoke, revokeResult, grantRequests, grantLog>>

\* a getAuthHeaders that asks for a token whenever client credentials are there,
\* static key or not
RequestToken_CredentialsFirst(c) ==
  /\ pcAuth[c] = "idle"
  /\ ~TokenValid
  /\ clientId # Undefined /\ clientSecret # Undefined
  /\ grantRequests < MaxGrants
  /\ grantRequests' = grantRequests + 1
  /\ pcAuth' = [pcAuth EXCEPT ![c] = "posting"]
  /\ UNCHANGED <<now, apiKey, clientId, clientSecret, accessToken, tokenExpiry,
                 authResult, pcRevoke, revokeResult, grantLog>>

\* getAccessToken issues POST /v2/auth/token and suspends (auth.ts:55-68)
RequestToken(c) ==
  /\ pcAuth[c] = "idle"
  /\ apiKey = Undefined
  /\ ~TokenValid
  /\ clientId # Undefined /\ clientSecret # Undefined
  /\ grantRequests < MaxGrants
  /\ grantRequests' = grantRequests + 1
  /\ pcAuth' = [pcAuth EXCEPT ![c] = "posting"]
  /\ UNCHANGED <<now, apiKey, clientId, clientSecret, accessToken, tokenExpiry,
                 authResult, pcRevoke, revokeResult, grantLog>>

\* the grant response carries a token: store it and return it (auth.ts:74-78)
TokenGranted(c) ==
  /\ pcAuth[c] = "posting"
  /\ \E expires_in \in ExpiresInValues :
       LET token == Len(grantLog) + 1 IN
       /\ accessToken' = Some(token)
       /\ tokenExpiry' = Some(ExpiryFor(now, expires_in))
       /\ grantLog' = Append(grantLog, [issuedAt |-> now, expires_in |-> expires_in])
       /\ authResult' = [authResult EXCEPT ![c] = BearerHeaders(token, FALSE)]
  /\ pcAuth' = [pcAuth EXCEPT ![c] = "returned"]
  /\ UNCHANGED <<now, apiKey, clientId, clientSecret, pcRevoke, revokeResult, grantRequests>>

\* a catch block that also drops the stored token before it rethrows
TokenRefused_Clears(c) ==
  /\ pcAuth[c] = "posting"
  /\ authResult' = [authResult EXCEPT
                      ![c] = AuthFailure("Authentication failed: invalid_client")]
  /\ accessToken' = Undefined
  /\ tokenExpiry' = Undefined
  /\ pcAuth' = [pcAuth EXCEPT ![c] = "returned"]
  /\ UNCHANGED <<now, apiKey, clientId, clientSecret,
                 pcRevoke, revokeResult, grantRequests, grantLog>>

\* the grant fails: success flag false or token missing (auth.ts:70-72, rethrown
\* by the catch at 83), HTTP rejection (auth.ts:80-82), transport error (auth.ts:83)
TokenRefused(c) ==
  /\ pcAuth[c] = "posting"
  /\ \E message \in {"Authentication error: Failed to obtain access token",
                     "Authentication failed: invalid_client",
                     "Authentication error: connect ECONNREFUSED"} :
       authResult' = [authResult EXCEPT ![c] = AuthFailure(message)]
  /\ pcAuth' = [pcAuth EXCEPT ![c] = "returned"]
  /\ UNCHANGED <<now, apiKey, clientId, clientSecret, accessToken, tokenExpiry,
                 pcRevoke, revokeResult, grantRequests, grantLog>>

\* the caller of getAuthHeaders has consumed the outcome and may call again
AuthSettled(c) ==
  /\ pcAuth[c] = "returned"
  /\ pcAuth' = [pcAuth EXCEPT ![c] = "idle"]
  /\ authResult' = [authResult EXCEPT ![c] = NoResult]
  /\ UNCHANGED <<now, apiKey, clientId, clientSecret, accessToken, tokenExpiry,
                 pcRevoke, revokeResult, grantRequests, grantLog>>

\* a revokeToken that posts the revocation whether it holds a token or not
RevokeNoToken_Posts ==
  /\ pcRevoke = "idle"
  /\ accessToken = Undefined
  /\ pcRevoke' = "posting"
  /\ revokeResult' = "none"
  /\ UNCHANGED <<now, apiKey, clientId, clientSecret, accessToken, tokenExpiry,
                 pcAuth, authResult, grantRequests, grantLog>>

\* revokeToken with no token held (auth.ts:88-90)
RevokeNoToken ==
  /\ pcRevoke = "idle"
  /\ accessToken = Undefined
  /\ revokeResult' = "noop"
  /\ UNCHANGED <<now, apiKey, clientId, clientSecret, accessToken, tokenExpiry,
                 pcAuth, authResult, pcRevoke, grantRequests, grantLog>>

\* revokeToken issues POST /v2/auth/revoke and suspends (auth.ts:92-102)
RevokeRequest ==
  /\ pcRevoke = "idle"
  /\ accessToken # Undefined
  /\ pcRevoke' = "posting"
  /\ revokeResult' = "none"
  /\ UNCHANGED <<now, apiKey, clientId, clientSecret, accessToken, tokenExpiry,
                 pcAuth, authResult, grantRequests, grantLog>>

\* a cleanup that forgets the token itself
RevokeSettled_ExpiryOnly ==
  /\ pcRevoke = "posting"
  /\ \E outcome \in {"revoked", "failed"} : revokeResult' = outcome
  /\ tokenExpiry' = Undefined
  /\ pcRevoke' = "idle"
  /\ UNCHANGED <<now, apiKey, clientId, clientSecret, accessToken, pcAuth, authResult,
                 grantRequests, grantLog>>

\* the same with the clearing placed after the await instead of in a finally: a
\* rejected call skips it
RevokeSettled_NoFinally ==
  /\ pcRevoke = "posting"
  /\ \/ /\ revokeResult' = "revoked"
        /\ accessToken' = Undefined
        /\ tokenExpiry' = Undefined
     \/ /\ revokeResult' = "failed"
        /\ UNCHANGED <<accessToken, tokenExpiry>>
  /\ pcRevoke' = "idle"
  /\ UNCHANGED <<now, apiKey, clientId, clientSecret, pcAuth, authResult,
                 grantRequests, grantLog>>

\* the revocation call settles; finally clears the token state (auth.ts:103-106)
RevokeSettled ==
  /\ pcRevoke = "posting"
  /\ \E outcome \in {"revoked", "failed"} : revokeResult' = outcome
  /\ accessToken' = Undefined
  /\ tokenExpiry' = Undefined
  /\ pcRevoke' = "idle"
  /\ UNCHANGED <<now, apiKey, clientId, clientSecret, pcAuth, authResult,
                 grantRequests, grantLog>>

\* PersonioClient.disconnect (client.ts:206-208): await this.auth.revokeToken(), with
\* nothing around it that catches
DisconnectOutcome ==
  IF revokeResult = "failed" THEN "rejected"
  ELSE IF revokeResult \in {"noop", "revoked"} THEN "resolved"
  ELSE "pending"

\* PersonioMCPServer.stop (server.ts:316-319): await this.client.disconnect(), then
\* the log line
StopOutcome ==
  IF DisconnectOutcome = "resolved" THEN "stopped" ELSE DisconnectOutcome

\* the variables PersonioAuth does not own
notAuthVars == <<throttleVars, cacheVars, keyVars, errVars, callVars>>

AuthNext ==
  \/ \E c \in Callers : GetAuthHeadersApiKey(c) /\ UNCHANGED notAuthVars
  \/ \E c \in Callers : GetAuthHeadersReuse(c) /\ UNCHANGED notAuthVars
  \/ \E c \in Callers : GetAuthHeadersNoCredentials(c) /\ UNCHANGED notAuthVars
  \/ \E c \in Callers : RequestToken(c) /\ UNCHANGED notAuthVars
  \/ \E c \in Callers : TokenGranted(c) /\ UNCHANGED notAuthVars
  \/ \E c \in Callers : TokenRefused(c) /\ UNCHANGED notAuthVars
  \/ \E c \in Callers : AuthSettled(c) /\ UNCHANGED notAuthVars
  \/ RevokeNoToken /\ UNCHANGED notAuthVars
  \/ RevokeRequest /\ UNCHANGED notAuthVars
  \/ RevokeSettled /\ UNCHANGED notAuthVars
  \/ Tick /\ UNCHANGED <<authVars, notAuthVars>>

\* ============================================================= RateLimiter
\* rateLimiter.ts:15  interval: 60000
IntervalMs == 60 * MsPerSecond

\* the two constructor arguments handed to PQueue the wrong way round
QueueConcurrency_Swapped == requestsPerMinute

\* rateLimiter.ts:14  concurrency: this.burstLimit
QueueConcurrency == burstLimit

\* rateLimiter.ts:16  intervalCap: this.requestsPerMinute
QueueIntervalCap == requestsPerMinute

\* the (requestsPerMinute, burstLimit) pairs the model is built with
RateLimits == {<<2, 1>>, <<2, 2>>, <<3, 2>>}

\* the PQueue fields and the bookkeeping of the model, as one record
QState ==
  [queue |-> queue, pending |-> pending, intervalCount |-> intervalCount,
   intervalId |-> intervalId, intervalDue |-> intervalDue, intervalEnd |-> intervalEnd,
   timeoutId |-> timeoutId, timeoutDue |-> timeoutDue, taskState |-> taskState,
   startLog |-> startLog, windowLog |-> windowLog]

SetQState(s) ==
  /\ queue' = s.queue
  /\ pending' = s.pending
  /\ intervalCount' = s.intervalCount
  /\ intervalId' = s.intervalId
  /\ intervalDue' = s.intervalDue
  /\ intervalEnd' = s.intervalEnd
  /\ timeoutId' = s.timeoutId
  /\ timeoutDue' = s.timeoutDue
  /\ taskState' = s.taskState
  /\ startLog' = s.startLog
  /\ windowLog' = s.windowLog

\* the interval counter goes back to 0 (carryoverConcurrencyCount is off)
ResetIntervalCount(s) ==
  [s EXCEPT !.intervalCount = 0, !.windowLog = Append(@, now)]

\* a pause inside a running interval that sets no timer to resume at its end
IsIntervalPaused_NoTimer(s) ==
  IF ~s.intervalId
  THEN IF s.intervalEnd - now < 0
       THEN [s |-> ResetIntervalCount(s), paused |-> FALSE]
       ELSE [s |-> s, paused |-> TRUE]
  ELSE [s |-> s, paused |-> FALSE]

\* PQueue #isIntervalPaused: with the timer disarmed, either the interval set at
\* arming time is over (the counter restarts) or a timer is set to resume at its end
IsIntervalPaused(s) ==
  IF ~s.intervalId
  THEN IF s.intervalEnd - now < 0
       THEN [s |-> ResetIntervalCount(s), paused |-> FALSE]
       ELSE [s |-> IF s.timeoutId THEN s
                   ELSE [s EXCEPT !.timeoutId = TRUE, !.timeoutDue = s.intervalEnd],
             paused |-> TRUE]
  ELSE [s |-> s, paused |-> FALSE]

\* PQueue #initializeIntervalIfNeeded
InitializeIntervalIfNeeded(s) ==
  IF s.intervalId THEN s
  ELSE [s EXCEPT !.intervalId = TRUE, !.intervalDue = now + IntervalMs,
                 !.intervalEnd = now + IntervalMs]

\* the job PQueue.add wraps around fn: count it, then call fn
RunJob(s, t) ==
  [s EXCEPT !.pending = @ + 1, !.intervalCount = @ + 1,
            !.taskState[t] = "running",
            !.startLog[t] = <<[at |-> now, win |-> Len(s.windowLog),
                               seq |-> Cardinality({u \in Tasks : s.startLog[u] # <<>>}),
                               waited |-> TRUE]>>]

\* PQueue #tryToStartAnother
TryToStartAnother(s) ==
  IF Len(s.queue) = 0
  THEN [s |-> [s EXCEPT !.intervalId = FALSE], started |-> FALSE]
  ELSE LET p == IsIntervalPaused(s) IN
       IF p.s.intervalCount < QueueIntervalCap /\ p.s.pending < QueueConcurrency
       THEN LET ran == RunJob([p.s EXCEPT !.queue = Tail(@)], Head(p.s.queue)) IN
            [s |-> IF p.paused THEN ran ELSE InitializeIntervalIfNeeded(ran),
             started |-> TRUE]
       ELSE [s |-> p.s, started |-> FALSE]

\* PQueue #processQueue: while (this.#tryToStartAnother()) {}
RECURSIVE ProcessQueue(_)
ProcessQueue(s) ==
  LET r == TryToStartAnother(s) IN
  IF r.started THEN ProcessQueue(r.s) ELSE r.s

\* PQueue #onInterval
OnInterval(s) ==
  LET cleared == IF s.intervalCount = 0 /\ s.pending = 0 /\ s.intervalId
                 THEN [s EXCEPT !.intervalId = FALSE] ELSE s
  IN ProcessQueue(ResetIntervalCount(cleared))

\* PQueue #onResumeInterval: #onInterval, then #initializeIntervalIfNeeded, timer id cleared
OnResumeInterval(s) ==
  [InitializeIntervalIfNeeded(OnInterval(s)) EXCEPT !.timeoutId = FALSE]

ThrottleInit ==
  /\ \E rl \in RateLimits : requestsPerMinute = rl[1] /\ burstLimit = rl[2]
  /\ queue = <<>>
  /\ pending = 0
  /\ intervalCount = 0
  /\ intervalId = FALSE
  /\ intervalDue = 0
  /\ intervalEnd = 0
  /\ timeoutId = FALSE
  /\ timeoutDue = 0
  /\ taskState = [t \in Tasks |-> "new"]
  /\ startLog = [t \in Tasks |-> <<>>]
  /\ windowLog = <<>>

\* a queue that puts the newest job in front
Enqueue_Front(q, t) == <<t>> \o q

\* PQueue enqueue with the default priority 0 for every job: behind the jobs waiting
Enqueue(q, t) == Append(q, t)

\* the job started inside add(), without having waited in the queue
StartedAtOnce(s, t) ==
  IF s.taskState[t] = "running"
  THEN [s EXCEPT !.startLog[t] = <<[Val(@) EXCEPT !.waited = FALSE]>>]
  ELSE s

\* a handler that calls fn itself instead of handing it to the queue
Submitted_Unthrottled(t) == RunJob(QState, t)

\* PQueue.add: the job is enqueued and the queue tries to start one
Submitted(t) ==
  StartedAtOnce(
    TryToStartAnother([QState EXCEPT !.queue = Enqueue(@, t), !.taskState[t] = "queued"]).s,
    t)

\* a job whose failure skips the release of its slot
Settled_LeakOnFailure(t, outcome) ==
  IF outcome = "rejected"
  THEN [QState EXCEPT !.taskState[t] = outcome]
  ELSE TryToStartAnother([QState EXCEPT !.pending = @ - 1, !.taskState[t] = outcome]).s

\* the job's finally: one less pending, and the queue tries to start one (PQueue #next)
Settled(t, outcome) ==
  TryToStartAnother([QState EXCEPT !.pending = @ - 1, !.taskState[t] = outcome]).s

\* RateLimiter.execute(fn) (rateLimiter.ts:20-22): return this.queue.add(fn)
Execute(t) ==
  /\ taskState[t] = "new"
  /\ \A u \in Tasks : u < t => taskState[u] # "new"
  /\ SetQState(Submitted(t))
  /\ UNCHANGED <<now, requestsPerMinute, burstLimit>>

\* fn settles, by success or by failure: the job's finally runs #next
TaskSettles(t) ==
  /\ taskState[t] = "running"
  /\ \E outcome \in {"resolved", "rejected"} : SetQState(Settled(t, outcome))
  /\ UNCHANGED <<now, requestsPerMinute, burstLimit>>

\* the setInterval timer fires
IntervalFires ==
  /\ intervalId
  /\ now >= intervalDue
  /\ SetQState(OnInterval([QState EXCEPT !.intervalDue = @ + IntervalMs]))
  /\ UNCHANGED <<now, requestsPerMinute, burstLimit>>

\* the resume timer fires: PQueue #onResumeInterval
ResumeFires ==
  /\ timeoutId
  /\ now >= timeoutDue
  /\ SetQState(OnResumeInterval(QState))
  /\ UNCHANGED <<now, requestsPerMinute, burstLimit>>

\* a clear() that forgets the waiting jobs but the first
Clear_LeavesHead ==
  /\ queue # <<>>
  /\ queue' = <<Head(queue)>>
  /\ taskState' = [t \in Tasks |->
                     IF taskState[t] = "queued" /\ t # Head(queue) THEN "dropped"
                     ELSE taskState[t]]
  /\ UNCHANGED <<now, requestsPerMinute, burstLimit, pending, intervalCount, intervalId,
                 intervalDue, intervalEnd, timeoutId, timeoutDue, startLog, windowLog>>

\* RateLimiter.clear(): the waiting jobs are forgotten
Clear ==
  /\ queue # <<>>
  /\ queue' = <<>>
  /\ taskState' = [t \in Tasks |-> IF taskState[t] = "queued" THEN "dropped" ELSE taskState[t]]
  /\ UNCHANGED <<now, requestsPerMinute, burstLimit, pending, intervalCount, intervalId,
                 intervalDue, intervalEnd, timeoutId, timeoutDue, startLog, windowLog>>

\* the clock moves on once the timers that are due have fired
ThrottleTick ==
  /\ intervalId => now < intervalDue
  /\ timeoutId => now < timeoutDue
  /\ Tick
  /\ UNCHANGED throttleVars

\* the variables the RateLimiter does not own
notThrottleVars == <<authVars, cacheVars, keyVars, errVars, callVars>>

ThrottleNext ==
  \/ \E t \in Tasks : Execute(t) /\ UNCHANGED notThrottleVars
  \/ \E t \in Tasks : TaskSettles(t) /\ UNCHANGED notThrottleVars
  \/ IntervalFires /\ UNCHANGED notThrottleVars
  \/ ResumeFires /\ UNCHANGED notThrottleVars
  \/ Clear /\ UNCHANGED notThrottleVars
  \/ ThrottleTick /\ UNCHANGED notThrottleVars

\* ---------------------------------------------- the RateLimiter on an endless clock
\* an instant this far back compares with now like any earlier one
LongPast == StartMs - IntervalMs - TickMs

\* an instant after TickMs have passed, told relative to now
Shift(x) == IF x <= LongPast THEN x ELSE x - TickMs

\* TickMs pass.  The code only compares instants with now, so now is kept and the
\* instants of the timers are moved back instead; the records of the windows and
\* start instants gone by, which no code reads, are dropped.
EndlessTick ==
  /\ intervalId => now < intervalDue
  /\ timeoutId => now < timeoutDue
  /\ intervalDue' = Shift(intervalDue)
  /\ intervalEnd' = Shift(intervalEnd)
  /\ timeoutDue' = Shift(timeoutDue)
  /\ windowLog' = <<>>
  /\ startLog' = [t \in Tasks |->
                    IF startLog[t] = <<>> THEN <<>>
                    ELSE <<[Val(startLog[t]) EXCEPT !.at = 0, !.win = 0]>>]
  /\ UNCHANGED <<now, requestsPerMinute, burstLimit, queue, pending, intervalCount,
                 intervalId, timeoutId, taskState>>

\* the RateLimiter with clear() never called
EndlessNext ==
  \/ \E t \in Tasks : Execute(t) /\ UNCHANGED notThrottleVars
  \/ \E t \in Tasks : TaskSettles(t) /\ UNCHANGED notThrottleVars
  \/ IntervalFires /\ UNCHANGED notThrottleVars
  \/ ResumeFires /\ UNCHANGED notThrottleVars
  \/ EndlessTick /\ UNCHANGED notThrottleVars

\* tasks in flight complete, timers that are due fire, time goes on
EndlessFairness ==
  /\ \A t \in Tasks : WF_vars(TaskSettles(t) /\ UNCHANGED notThrottleVars)
  /\ WF_vars(IntervalFires /\ UNCHANGED notThrottleVars)
  /\ WF_vars(ResumeFires /\ UNCHANGED notThrottleVars)
  /\ WF_vars(EndlessTick /\ UNCHANGED notThrottleVars)

\* ============================================================ CacheManager
\* String.prototype.includes
Includes(str, sub) ==
  \E i \in 1..(Len(str) - Len(sub) + 1) : SubSeq(str, i, i + Len(sub) - 1) = sub

\* cache.ts:15-17  config?.xTTL || default
OrDefault(opt, default) ==
  IF opt = Undefined \/ Val(opt) = 0 THEN default ELSE Val(opt)

\* the namespace test made on the singular marker, which also matches employee:<id>
GetDefaultTTL_Singular(key) ==
  IF Includes(key, "employee") THEN employeesTTL
  ELSE IF Includes(key, "organization") THEN organizationTTL
  ELSE IF Includes(key, "policies") THEN policiesTTL
  ELSE 300

\* CacheManager.getDefaultTTL (cache.ts:47-52)
GetDefaultTTL(key) ==
  IF Includes(key, "employees") THEN employeesTTL
  ELSE IF Includes(key, "organization") THEN organizationTTL
  ELSE IF Includes(key, "policies") THEN policiesTTL
  ELSE 300

\* cache.ts:28  ttl || this.getDefaultTTL(key)
EffectiveTTL(key, ttl) ==
  IF ttl = Undefined \/ Val(ttl) = 0 THEN GetDefaultTTL(key) ELSE Val(ttl)

\* NodeCache _wrap: a lifetime of ttl seconds from now (0 would mean: never expires)
Wrap(v, ttl) ==
  [v |-> v, t |-> IF ttl = 0 THEN 0 ELSE now + ttl * MsPerSecond]

\* NodeCache _check: an entry is dead once its expiry instant lies before now
Expired(entry) == entry.t # 0 /\ entry.t < now

\* a lookup that hands out whatever is stored, as a plain map would
Lookup_NoExpiry(data, key) ==
  IF key \in DOMAIN data THEN Some(data[key].v) ELSE Undefined

\* CacheManager.get (cache.ts:31-33): NodeCache.get returns the value of a live entry
Lookup(data, key) ==
  IF key \in DOMAIN data /\ ~Expired(data[key]) THEN Some(data[key].v) ELSE Undefined

\* the keys stay, their entries are stored anew without an expiry
Remove_StoresAnew(data, keys) ==
  [k \in DOMAIN data |-> IF k \in keys THEN [data[k] EXCEPT !.t = 0] ELSE data[k]]

\* CacheManager.delete (cache.ts:39-41), for each of the keys
Remove(data, keys) == [k \in DOMAIN data \ keys |-> data[k]]

\* NodeCache.get / has delete the entry they find dead (deleteOnExpire)
AfterLookup(data, key) ==
  IF key \in DOMAIN data /\ Expired(data[key]) THEN Remove(data, {key}) ELSE data

\* CacheManager.set (cache.ts:27-29)
Stored(data, key, v, ttl) ==
  (key :> Wrap(v, EffectiveTTL(key, ttl))) @@ data

LoggedSet(log, key, ttl) ==
  (key :> [at |-> now, ttl |-> EffectiveTTL(key, ttl), arg |-> ttl]) @@ log

\* the keys and values used on the CacheManager directly
DirectKeys == {"employees:{}", "absences:{}"}
CacheValues == {1}
\* CACHE_TTL_EMPLOYEES as main() passes it on (index.ts:27), unset or set to 30 s
EmployeesTTLOptions == {Undefined, Some(30)}
\* the ttl argument of set: none, the 60 s listAbsences uses (absences.ts:191), or 0
TTLArguments == {Undefined, Some(60), Some(0)}

CacheInit ==
  /\ \E opt \in EmployeesTTLOptions : employeesTTL = OrDefault(opt, 300)
  /\ organizationTTL = OrDefault(Undefined, 3600)
  /\ policiesTTL = OrDefault(Undefined, 86400)
  /\ cacheData = <<>>
  /\ lastGet = [op |-> "none"]
  /\ setLog = <<>>

CacheSet(key, v, ttl) ==
  /\ cacheData' = Stored(cacheData, key, v, ttl)
  /\ setLog' = LoggedSet(setLog, key, ttl)
  /\ UNCHANGED <<now, employeesTTL, organizationTTL, policiesTTL, lastGet>>

\* CacheManager.get (cache.ts:31-33)
CacheGet(key) ==
  /\ lastGet' = [op |-> "get", key |-> key, at |-> now, value |-> Lookup(cacheData, key)]
  /\ cacheData' = AfterLookup(cacheData, key)
  /\ UNCHANGED <<now, employeesTTL, organizationTTL, policiesTTL, setLog>>

\* CacheManager.has (cache.ts:35-37)
CacheHas(key) ==
  /\ lastGet' = [op |-> "has", key |-> key, at |-> now,
                 value |-> IF Lookup(cacheData, key) # Undefined THEN Some(TRUE) ELSE Undefined]
  /\ cacheData' = AfterLookup(cacheData, key)
  /\ UNCHANGED <<now, employeesTTL, organizationTTL, policiesTTL, setLog>>

\* CacheManager.delete (cache.ts:39-41)
CacheDelete(key) ==
  /\ key \in DOMAIN cacheData
  /\ cacheData' = Remove(cacheData, {key})
  /\ UNCHANGED <<now, employeesTTL, organizationTTL, policiesTTL, lastGet, setLog>>

\* NodeCache _checkData, run every checkperiod (cache.ts:22): dead entries are deleted
CheckData ==
  /\ \E k \in DOMAIN cacheData : Expired(cacheData[k])
  /\ cacheData' = Remove(cacheData, {k \in DOMAIN cacheData : Expired(cacheData[k])})
  /\ UNCHANGED <<now, employeesTTL, organizationTTL, policiesTTL, lastGet, setLog>>

\* the variables the CacheManager does not own
notCacheVars == <<authVars, throttleVars, keyVars, errVars, callVars>>

CacheNext ==
  \/ \E key \in DirectKeys, v \in CacheValues, ttl \in TTLArguments :
       CacheSet(key, v, ttl) /\ UNCHANGED notCacheVars
  \/ \E key \in DirectKeys : CacheGet(key) /\ UNCHANGED notCacheVars
  \/ \E key \in DirectKeys : CacheHas(key) /\ UNCHANGED notCacheVars
  \/ \E key \in DirectKeys : CacheDelete(key) /\ UNCHANGED notCacheVars
  \/ CheckData /\ UNCHANGED notCacheVars
  \/ Tick /\ UNCHANGED <<cacheVars, notCacheVars>>

\* ------------------------------------------------------ cache key generators
\* parameter objects: tuples of <<name, value>> with distinct names, insertion order kept
ParamNames == {"limit", "offset", "status"}
ParamValues == {0, 50}
ParamObjects ==
  {<<>>} \cup
  UNION {{p \in [1..n -> ParamNames \X ParamValues] :
            \A i, j \in 1..n : i # j => p[i][1] # p[j][1]} : n \in 1..MaxParams}

Quote(str) == "\"" \o str \o "\""

\* JSON.stringify of an object: its own properties in insertion order
RECURSIVE JsonMembers(_)
JsonMembers(params) ==
  IF params = <<>> THEN ""
  ELSE Quote(params[1][1]) \o ":" \o ToString(params[1][2])
       \o (IF Len(params) > 1 THEN "," ELSE "") \o JsonMembers(Tail(params))

JsonStringify(params) == "{" \o JsonMembers(params) \o "}"

\* CacheManager.getEmployeesKey (cache.ts:55-57); params || {} is the empty object
GetEmployeesKey(params) == "employees:" \o JsonStringify(params)

\* CacheManager.getEmployeeKey (cache.ts:59-61)
GetEmployeeKey(id) == "employee:" \o ToString(id)

\* CacheManager.getAbsencesKey (cache.ts:63-65)
GetAbsencesKey(params) == "absences:" \o JsonStringify(params)

KeysInit ==
  /\ keyParams \in ParamObjects \X ParamObjects
  /\ keyOut = <<>>

KeysQuiet ==
  /\ keyParams = <<<<>>, <<>>>>
  /\ keyOut = <<>>

GenerateKeys ==
  /\ keyOut = <<>>
  /\ keyOut' = [employees |-> <<GetEmployeesKey(keyParams[1]), GetEmployeesKey(keyParams[2])>>,
                absences |-> <<GetAbsencesKey(keyParams[1]), GetAbsencesKey(keyParams[2])>>]
  /\ UNCHANGED <<now, keyParams>>

notKeyVars == <<authVars, throttleVars, cacheVars, errVars, callVars>>

KeysNext ==
  \/ GenerateKeys /\ UNCHANGED notKeyVars

\* ============================================================== formatError
\* a thrown object, with the properties the code reads from it
ErrorObject(class, message, code, response, request) ==
  [type |-> "object", class |-> class, message |-> message, code |-> code,
   response |-> response, request |-> request,
   statusCode |-> Undefined, errorCode |-> Undefined, details |-> Undefined]

\* throw null, throw undefined
NullError == [type |-> "null"]
UndefinedError == [type |-> "undefined"]

\* a thrown primitive (a string): every property read from it is undefined
PrimitiveError == ErrorObject("primitive", Undefined, Undefined, Undefined, FALSE)

\* new Error(message)
PlainError(message) == ErrorObject("Error", Some(message), Undefined, Undefined, FALSE)

\* what schema.parse throws: a ZodError, which has no code and no response
ZodError == ErrorObject("ZodError", Some("invalid arguments"), Undefined, Undefined, FALSE)

\* new PersonioMCPError(message, code, details) (errors.ts:1-10)
PersonioMCPError(message, code, details) ==
  [ErrorObject("PersonioMCPError", Some(message), Some(code), Undefined, FALSE)
     EXCEPT !.details = details]

\* new PersonioApiError(statusCode, message, errorCode) (client.ts:14-23)
PersonioApiError(statusCode, message, errorCode) ==
  [ErrorObject("PersonioApiError", message, Undefined, Undefined, FALSE)
     EXCEPT !.statusCode = Some(statusCode), !.errorCode = errorCode]

\* the message axios gives the rejection of an error status
StatusMessage(status) == "Request failed with status code " \o ToString(status)

\* the rejection axios produces for an answer with an error status
AxiosResponseError(status, data) ==
  ErrorObject("AxiosError", Some(StatusMessage(status)),
              Some(IF status < 500 THEN "ERR_BAD_REQUEST" ELSE "ERR_BAD_RESPONSE"),
              Some([status |-> status, data |-> data]), TRUE)

\* the rejection axios produces when no answer came
AxiosNetworkError(code) ==
  ErrorObject("AxiosError", Some("connect " \o code), Some(code), Undefined, TRUE)

\* a || b on optional strings: the empty string is falsy
OrElse(a, b) == IF a # Undefined /\ Val(a) # "" THEN a ELSE b

\* data?.message
DataMessage(data) == IF data = Undefined THEN Undefined ELSE Val(data).message

\* data?.error?.message
DataErrorMessage(data) ==
  IF data = Undefined \/ Val(data).error = Undefined THEN Undefined
  ELSE Val(Val(data).error).message

\* data?.error?.code
DataErrorCode(data) ==
  IF data = Undefined \/ Val(data).error = Undefined THEN Undefined
  ELSE Val(Val(data).error).code

\* PersonioClient.handleError (client.ts:57-68): the response interceptor's rejection
HandleError(error) ==
  IF error.response # Undefined
  THEN LET status == Val(error.response).status
           data == Val(error.response).data
       IN PersonioApiError(status, OrElse(DataErrorMessage(data), Some("Unknown error")),
                           DataErrorCode(data))
  ELSE IF error.request
  THEN PersonioApiError(0, Some("Network error occurred"), Some("NETWORK_ERROR"))
  ELSE PersonioApiError(0, error.message, Some("REQUEST_ERROR"))

Formatted(code, message, details) ==
  [threw |-> FALSE, code |-> code, message |-> message, details |-> details]

\* formatError with the test of error.code placed ahead of the test of error.response
FormatError_CodeFirst(error) ==
  IF error.type # "object" THEN [threw |-> TRUE]
  ELSE IF error.class = "PersonioMCPError"
  THEN Formatted(error.code, error.message, error.details)
  ELSE IF error.code # Undefined /\ Val(error.code) # ""
  THEN Formatted(error.code, error.message, Undefined)
  ELSE IF error.response # Undefined
  THEN Formatted(Some("HTTP_" \o ToString(Val(error.response).status)),
                 OrElse(DataMessage(Val(error.response).data), error.message),
                 Val(error.response).data)
  ELSE Formatted(Some("UNKNOWN_ERROR"),
                 OrElse(error.message, Some("An unknown error occurred")), Undefined)

\* formatError (errors.ts:12-41); reading a property of null or undefined throws
FormatError(error) ==
  IF error.type # "object" THEN [threw |-> TRUE]
  ELSE IF error.class = "PersonioMCPError"
  THEN Formatted(error.code, error.message, error.details)
  ELSE IF error.response # Undefined
  THEN Formatted(Some("HTTP_" \o ToString(Val(error.response).status)),
                 OrElse(DataMessage(Val(error.response).data), error.message),
                 Val(error.response).data)
  ELSE IF error.code # Undefined /\ Val(error.code) # ""
  THEN Formatted(error.code, error.message, Undefined)
  ELSE Formatted(Some("UNKNOWN_ERROR"),
                 OrElse(error.message, Some("An unknown error occurred")), Undefined)

\* the error statuses the upstream is taken to answer with
ErrorStatuses == {401, 404, 429, 500}

OptionalMessages == {Undefined, Some("rate limited")}

\* the bodies of its error answers: none, or {message?, error?: {message?, code?}}
ErrorBodies ==
  {Undefined} \cup
  {Some([message |-> m, error |-> e]) :
     m \in {Undefined, Some("not found")},
     e \in {Undefined} \cup
           {Some([message |-> em, code |-> ec]) :
              em \in OptionalMessages, ec \in {Undefined, Some("E42")}}}

\* the values formatError is tried on
ErrorInputs ==
  {AxiosResponseError(s, d) : s \in ErrorStatuses, d \in ErrorBodies}
  \cup {AxiosNetworkError(c) : c \in {"ECONNREFUSED", "ETIMEDOUT"}}
  \cup {PersonioMCPError("bad input", c, d) :
          c \in {"VALIDATION_ERROR", "AUTH_ERROR"}, d \in {Undefined, Some("detail")}}
  \cup {[PersonioMCPError("upstream said no", "AUTH_ERROR", Undefined)
            EXCEPT !.response = Some([status |-> 401, data |-> Undefined])]}
  \cup {PlainError(m) : m \in {"", "Unknown tool: get_employee",
                               "Failed to obtain access token"}}
  \cup {ZodError, PrimitiveError, NullError, UndefinedError}

ErrorInit ==
  /\ errRaised \in ErrorInputs
  /\ errThrown = errRaised
  /\ errOut = Undefined
  /\ errPath = <<"origin">>

ErrorQuiet ==
  /\ errRaised = UndefinedError
  /\ errThrown = errRaised
  /\ errOut = Undefined
  /\ errPath = <<"origin">>

\* the catch block of getAccessToken (auth.ts:79-84): whatever was thrown in its try
\* block is replaced by a new Error
CaughtInAuth(error) ==
  IF error.response # Undefined
  THEN PlainError("Authentication failed: "
                  \o Val(OrElse(DataErrorMessage(Val(error.response).data), error.message)))
  ELSE PlainError("Authentication error: " \o Val(error.message))

\* the failure arose in getAccessToken: a rejected grant request, or the throw of
\* auth.ts:71 for an answer without token
AuthCatch ==
  /\ errOut = Undefined
  /\ errPath = <<"origin">>
  /\ errRaised.type = "object"
  /\ \/ errRaised.class = "AxiosError"
     \/ errRaised = PlainError("Failed to obtain access token")
  /\ errThrown' = CaughtInAuth(errRaised)
  /\ errPath' = Append(errPath, "getAccessToken")
  /\ UNCHANGED <<now, errRaised, errOut>>

\* the error passes the client's response interceptor before it is caught: the
\* rejection of a data request, or the rejection of the request interceptor that
\* called getAuthHeaders (client.ts:44-54)
Intercept ==
  /\ errOut = Undefined
  /\ errRaised.type = "object"
  /\ \/ errPath = <<"origin">> /\ errRaised.class = "AxiosError"
     \/ errPath = <<"origin", "getAccessToken">>
  /\ errThrown' = HandleError(errThrown)
  /\ errPath' = Append(errPath, "handleError")
  /\ UNCHANGED <<now, errRaised, errOut>>

\* formatError(error)
Format ==
  /\ errOut = Undefined
  /\ errOut' = Some(FormatError(errThrown))
  /\ UNCHANGED <<now, errRaised, errThrown, errPath>>

notErrVars == <<authVars, throttleVars, cacheVars, keyVars, callVars>>

ErrorNext ==
  \/ AuthCatch /\ UNCHANGED notErrVars
  \/ Intercept /\ UNCHANGED notErrVars
  \/ Format /\ UNCHANGED notErrVars

\* ================================================================ tool calls
Calls == 1..MaxCalls

\* the tools of the model, and the objects a call can be made on
ToolNames == {"list_employees", "get_employee", "update_employee",
              "list_absences", "create_absence_request", "delete_absence"}
Entries == {"server", "employeeTools", "absenceTools"}

\* the tools called through the server
ServerToolNames == ToolNames \cup {"search_employees"}

\* the resources that keep their answer in the cache, by uri
EmployeeDirectory == "personio://employees/directory"
OrganizationStructure == "personio://organization/structure"
AbsenceTypesPolicy == "personio://policies/absence-types"

\* the reads that look in the cache before they ask the upstream
ReadTools == {"list_employees", "get_employee", "list_absences",
              "list_document_categories", EmployeeDirectory, OrganizationStructure}
IsRead(name) == name \in ReadTools
IsMutation(name) == name \notin ReadTools

\* the upstream entity a tool reads or writes
Entity(name) ==
  IF name \in {"list_employees", "get_employee", "update_employee",
              EmployeeDirectory, OrganizationStructure}
  THEN "employees"
  ELSE IF name \in {"list_document_categories", "upload_document_base64"} THEN "documents"
  ELSE IF name \in {"create_attendance", "delete_attendance"} THEN "attendances"
  ELSE "absences"

\* the names the server lists: getAllTools, the getTools lists of the four tools
AdvertisedTools ==
  {"list_employees", "get_employee", "search_employees", "get_employee_absence_balance",
   "update_employee"}
  \cup {"list_absences", "create_absence_request", "delete_absence", "get_absence_types"}
  \cup {"list_attendances", "create_attendance", "update_attendance", "delete_attendance",
        "get_projects"}
  \cup {"list_document_categories", "upload_document", "upload_document_base64"}

\* String.prototype.startsWith
StartsWith(str, prefix) ==
  Len(str) >= Len(prefix) /\ SubSeq(str, 1, Len(prefix)) = prefix

\* PersonioMCPServer.handleToolCall (server.ts:223-239): the tools object a name goes to
Route(name) ==
  IF StartsWith(name, "employee_") \/ name \in {"list_employees", "search_employees"}
  THEN "employeeTools"
  ELSE IF StartsWith(name, "absence_") \/ name \in {"list_absences", "create_absence_request"}
  THEN "absenceTools"
  ELSE IF StartsWith(name, "attendance_") \/ name \in {"list_attendances", "create_attendance"}
  THEN "attendanceTools"
  ELSE IF StartsWith(name, "document_") \/ name \in {"list_documents", "upload_document"}
  THEN "documentTools"
  ELSE "unknown"

\* the cases of handleToolCall in the tools and of handleResourceRead in the resources
Handles(tools, name) ==
  \/ /\ tools = "employeeTools"
     /\ name \in {"list_employees", "get_employee", "search_employees",
                  "get_employee_absence_balance", "update_employee"}
  \/ /\ tools = "absenceTools"
     /\ name \in {"list_absences", "create_absence_request", "delete_absence",
                  "get_absence_types"}
  \/ /\ tools = "attendanceTools"
     /\ name \in {"list_attendances", "create_attendance", "update_attendance",
                  "delete_attendance", "get_projects"}
  \/ /\ tools = "documentTools"
     /\ name \in {"list_document_categories", "upload_document", "upload_document_base64"}
  \/ /\ tools = "employeeResources"
     /\ name \in {EmployeeDirectory, "personio://employees/by-department",
                  "personio://employees/active"}
  \/ /\ tools = "organizationResources"
     /\ name \in {OrganizationStructure, "personio://organization/departments",
                  "personio://organization/headcount"}

\* the Error thrown for a name that has no case
UnknownTool(tools, name) ==
  PlainError((IF tools = "employeeTools" THEN "Unknown employee tool: "
              ELSE IF tools = "absenceTools" THEN "Unknown absence tool: "
              ELSE IF tools = "attendanceTools" THEN "Unknown attendance tool: "
              ELSE IF tools = "documentTools" THEN "Unknown document tool: "
              ELSE "Unknown tool: ") \o name)

\* args[name], args a tuple of <<name, value>>
Field(args, name) ==
  IF \E i \in 1..Len(args) : args[i][1] = name
  THEN Some(args[CHOOSE i \in 1..Len(args) : args[i][1] = name][2])
  ELSE Undefined

\* the fields each schema requires
Required(name) ==
  CASE name = "get_employee" -> {"employee_id"}
    [] name = "update_employee" -> {"employee_id", "data"}
    [] name = "create_absence_request" ->
         {"employee_id", "time_off_type_id", "start_date", "end_date"}
    [] name = "delete_absence" -> {"absence_id"}
    [] name = "search_employees" -> {"query"}
    [] name = "create_attendance" -> {"employee_id", "date", "start_time", "end_time"}
    [] name = "delete_attendance" -> {"attendance_id"}
    [] name = "upload_document_base64" ->
         {"employee_id", "category_id", "file_content", "file_name"}
    [] OTHER -> {}

\* a schema whose limit and offset are plain z.number()
PagingValid_Unchecked(args) == TRUE

\* limit: z.number().min(1).max(50), offset: z.number().min(0), both optional
PagingValid(args) ==
  /\ Field(args, "limit") # Undefined => Val(Field(args, "limit")) \in 1..50
  /\ Field(args, "offset") # Undefined => Val(Field(args, "offset")) >= 0

\* query: z.string().min(1), limit: z.number().min(1).max(50).optional()
SearchValid(args) ==
  /\ Val(Field(args, "query")) # ""
  /\ Field(args, "limit") # Undefined => Val(Field(args, "limit")) \in 1..50

\* schema.parse(args) does not throw
Valid(name, args) ==
  /\ \A f \in Required(name) : Field(args, f) # Undefined
  /\ name \in {"list_employees", "list_absences"} => PagingValid(args)
  /\ name = "search_employees" => SearchValid(args)

\* a field with .default(d), and a field that is .optional()
WithDefault(args, f, d) ==
  <<f, IF Field(args, f) = Undefined THEN d ELSE Val(Field(args, f))>>
Optional(args, f) ==
  IF Field(args, f) = Undefined THEN <<>> ELSE <<<<f, Val(Field(args, f))>>>>

\* the argument of the listEmployees call in searchEmployees (employees.ts:219-222)
SearchListLimit == 1000
SearchListArguments(args) == <<<<"limit", SearchListLimit>>>> \o Optional(args, "attributes")

\* a handler that calls another handler first, whose schema.parse throws
InnerParseThrows(name, args) ==
  name = "search_employees" /\ ~Valid("list_employees", SearchListArguments(args))

\* what schema.parse returns: the schema's fields, in the schema's order, defaults filled
Parsed(name, args) ==
  CASE name = "list_employees" ->
         <<WithDefault(args, "limit", 50), WithDefault(args, "offset", 0)>>
    [] name = "list_absences" ->
         Optional(args, "status")
         \o <<WithDefault(args, "limit", 50), WithDefault(args, "offset", 0)>>
    [] name = "get_employee" -> <<<<"employee_id", Val(Field(args, "employee_id"))>>>>
    [] name = "update_employee" ->
         <<<<"employee_id", Val(Field(args, "employee_id"))>>,
           <<"data", Val(Field(args, "data"))>>>>
    [] name = "create_absence_request" ->
         <<<<"employee_id", Val(Field(args, "employee_id"))>>,
           <<"time_off_type_id", Val(Field(args, "time_off_type_id"))>>,
           <<"start_date", Val(Field(args, "start_date"))>>,
           <<"end_date", Val(Field(args, "end_date"))>>,
           WithDefault(args, "half_day_start", FALSE),
           WithDefault(args, "half_day_end", FALSE)>>
    [] name = "delete_absence" -> <<<<"absence_id", Val(Field(args, "absence_id"))>>>>
    [] OTHER -> <<>>

\* CacheManager.getOrganizationKey and getPoliciesKey (cache.ts:67-73)
GetOrganizationKey == "organization:structure"
GetPoliciesKey == "policies:absence-types"

\* the key a read looks up and stores under
CacheKey(name, params) ==
  CASE name = "list_employees" -> GetEmployeesKey(params)
    [] name = "get_employee" -> GetEmployeeKey(Val(Field(params, "employee_id")))
    [] name = "list_absences" -> GetAbsencesKey(params)
    [] name = "list_document_categories" -> "document:categories"
    [] name = EmployeeDirectory -> "resource:employees:directory"
    [] name = OrganizationStructure -> GetOrganizationKey

\* a read that stores whatever it was answered
Cacheable_Always(name, params) == TRUE

\* listAbsences stores only an answer that was not filtered by status (absences.ts:190)
Cacheable(name, params) ==
  name = "list_absences" => Field(params, "status") = Undefined

\* the ttl argument of the read's cache.set
CacheTTL(name) ==
  CASE name = "list_absences" -> Some(60)
    [] name = "list_document_categories" -> Some(86400)
    [] name = EmployeeDirectory -> Some(300)
    [] name = OrganizationStructure -> Some(3600)
    [] OTHER -> Undefined

\* a mutation that deletes the entity's own key and leaves the list key alone
Invalidated_EntityOnly(name, params) ==
  IF name = "update_employee"
  THEN {GetEmployeeKey(Val(Field(params, "employee_id")))}
  ELSE {}

\* a mutation that deletes the key list_employees or list_absences writes for a call
\* without arguments
Invalidated_DefaultPage(name, params) ==
  LET page == <<<<"limit", 50>>, <<"offset", 0>>>> IN
  CASE name = "update_employee" ->
         {GetEmployeeKey(Val(Field(params, "employee_id"))), GetEmployeesKey(page)}
    [] name \in {"create_absence_request", "delete_absence"} -> {GetAbsencesKey(page)}
    [] OTHER -> {}

\* the keys a mutation deletes once the upstream has accepted it
Invalidated(name, params) ==
  CASE name = "update_employee" ->
         {GetEmployeeKey(Val(Field(params, "employee_id"))), GetEmployeesKey(<<>>)}
    [] name \in {"create_absence_request", "delete_absence"} -> {GetAbsencesKey(<<>>)}
    [] OTHER -> {}

\* the arguments the tools are called with
ToolArguments(name) ==
  CASE name = "list_employees" -> {<<>>, <<<<"limit", 0>>>>}
    [] name = "list_absences" -> {<<>>, <<<<"status", "approved">>>>}
    [] name = "get_employee" -> {<<<<"employee_id", 1>>>>}
    [] name = "update_employee" -> {<<<<"employee_id", 1>>, <<"data", 1>>>>}
    [] name = "create_absence_request" ->
         {<<<<"employee_id", 1>>, <<"time_off_type_id", 1>>,
            <<"start_date", 1>>, <<"end_date", 2>>>>}
    [] name = "delete_absence" -> {<<<<"absence_id", 1>>>>, <<>>}
    [] name = "search_employees" ->
         {<<<<"query", "a">>>>, <<<<"query", "a">>, <<"limit", 1>>>>, <<<<"query", "">>>>}
    [] name = "create_attendance" ->
         {<<<<"employee_id", 1>>, <<"date", 1>>, <<"start_time", 1>>, <<"end_time", 2>>>>}
    [] name = "delete_attendance" -> {<<<<"attendance_id", 1>>>>}
    [] name = "upload_document_base64" ->
         {<<<<"employee_id", 1>>, <<"category_id", 1>>,
            <<"file_content", 1>>, <<"file_name", 1>>>>}
    [] OTHER -> {<<>>}

\* the error answers of the upstream in the tool-call model
UpstreamErrors ==
  {AxiosResponseError(s, Some([message |-> Undefined,
                               error |-> Some([message |-> Some("rate limited"),
                                               code |-> Undefined])])) : s \in {404, 429}}
  \cup {AxiosNetworkError("ECONNREFUSED")}

\* what the caller gets: the handler's return value ...
Success(source, value, held) ==
  [ok |-> TRUE, source |-> source, value |-> value, held |-> held]

\* ... or the error it threw, which the server's CallTool handler catches and
\* reports as the text "Error: <message>\nCode: <code>" (server.ts:156-166)
Failure(entry, error) ==
  [ok |-> FALSE, thrown |-> error,
   reported |-> IF entry = "server" THEN Some(FormatError(error)) ELSE Undefined]

CallInit ==
  /\ callOp = [r \in Calls |-> Undefined]
  /\ pcCall = [r \in Calls |-> "idle"]
  /\ served = [r \in Calls |-> Undefined]
  /\ callResult = [r \in Calls |-> Undefined]
  /\ upstream = [employees |-> 0, absences |-> 0, attendances |-> 0, documents |-> 0]

\* the handler ends before anything is handed to the RateLimiter
ReturnsAtOnce(r, result) ==
  /\ pcCall' = [pcCall EXCEPT ![r] = "done"]
  /\ callResult' = [callResult EXCEPT ![r] = Some(result)]
  /\ UNCHANGED <<throttleVars, cacheData>>

\* const cached = this.cache.get(cacheKey); if (cached) return cached;
CacheHit_Never(name, key) == FALSE

CacheHit(name, key) == IsRead(name) /\ Lookup(cacheData, key) # Undefined

\* a tool call or resource read, up to its first await: routing, schema.parse, the
\* cache lookup of a read, and rateLimiter.execute(() => this.client...)
ToolCall(r, entry, name, args) ==
  /\ pcCall[r] = "idle"
  /\ \A q \in Calls : q < r => pcCall[q] # "idle"
  /\ callOp' = [callOp EXCEPT ![r] = Some([entry |-> entry, name |-> name, args |-> args])]
  /\ LET tools == IF entry = "server" THEN Route(name) ELSE entry
         params == Parsed(name, args)
         key == CacheKey(name, params)
     IN IF ~Handles(tools, name)
        THEN ReturnsAtOnce(r, Failure(entry, UnknownTool(tools, name)))
        ELSE IF ~Valid(name, args) \/ InnerParseThrows(name, args)
        THEN ReturnsAtOnce(r, Failure(entry, ZodError))
        ELSE IF CacheHit(name, key)
        THEN ReturnsAtOnce(r, Success("cache", Val(Lookup(cacheData, key)), {}))
        ELSE /\ pcCall' = [pcCall EXCEPT ![r] = "admitted"]
             /\ SetQState(Submitted(r))
             /\ cacheData' = IF IsRead(name) THEN AfterLookup(cacheData, key) ELSE cacheData
             /\ UNCHANGED <<requestsPerMinute, burstLimit, callResult>>
  /\ UNCHANGED <<now, served, upstream, employeesTTL, organizationTTL, policiesTTL,
                 lastGet, setLog>>

\* the job has started, the request is out: the upstream applies it and answers
UpstreamServes(r) ==
  /\ pcCall[r] = "admitted"
  /\ taskState[r] = "running"
  /\ LET name == Val(callOp[r]).name
         e == Entity(name)
         applied == IF IsMutation(name) THEN [upstream EXCEPT ![e] = @ + 1] ELSE upstream
     IN \/ /\ upstream' = applied
           /\ served' = [served EXCEPT ![r] = Some([ok |-> TRUE, rev |-> applied[e]])]
        \/ /\ \E error \in UpstreamErrors :
                served' = [served EXCEPT ![r] = Some([ok |-> FALSE, error |-> error])]
           /\ UNCHANGED upstream
  /\ pcCall' = [pcCall EXCEPT ![r] = "served"]
  /\ UNCHANGED <<now, callOp, callResult, throttleVars, cacheVars>>

\* the cache work of a handler placed ahead of its await, so that it is done
\* whatever the upstream answers
CacheAfter_Regardless(name, params, answer, data) ==
  IF IsMutation(name)
  THEN Remove(data, Invalidated(name, params))
  ELSE IF answer.ok /\ Cacheable(name, params)
  THEN Stored(data, CacheKey(name, params), answer.rev, CacheTTL(name))
  ELSE data

\* the cache once the handler has run the code after its await: nothing of it if the
\* await threw, else the deletes of a mutation, or the set of a read
CacheAfter(name, params, answer, data) ==
  IF ~answer.ok
  THEN data
  ELSE IF IsMutation(name)
  THEN Remove(data, Invalidated(name, params))
  ELSE IF Cacheable(name, params)
  THEN Stored(data, CacheKey(name, params), answer.rev, CacheTTL(name))
  ELSE data

\* a handler that meets a failed answer by sending the request again
ResponseArrives_Retry(r) ==
  /\ pcCall[r] = "served"
  /\ ~Val(served[r]).ok
  /\ pcCall' = [pcCall EXCEPT ![r] = "admitted"]
  /\ UNCHANGED <<now, callOp, served, callResult, upstream, throttleVars, cacheVars>>

\* the answer arrives: the job settles, the handler resumes after its await and ends
ResponseArrives(r) ==
  /\ pcCall[r] = "served"
  /\ LET op == Val(callOp[r])
         answer == Val(served[r])
         params == Parsed(op.name, op.args)
         key == CacheKey(op.name, params)
         gone == Invalidated(op.name, params)
     IN IF ~answer.ok
        THEN /\ SetQState(Settled(r, "rejected"))
             /\ callResult' = [callResult EXCEPT
                                 ![r] = Some(Failure(op.entry, HandleError(answer.error)))]
             /\ cacheData' = CacheAfter(op.name, params, answer, cacheData)
             /\ UNCHANGED setLog
        ELSE IF IsMutation(op.name)
        THEN /\ SetQState(Settled(r, "resolved"))
             /\ cacheData' = CacheAfter(op.name, params, answer, cacheData)
             /\ callResult' = [callResult EXCEPT
                                 ![r] = Some(Success("upstream", answer.rev,
                                                     gone \cap DOMAIN cacheData))]
             /\ UNCHANGED setLog
        ELSE /\ SetQState(Settled(r, "resolved"))
             /\ cacheData' = CacheAfter(op.name, params, answer, cacheData)
             /\ setLog' = IF Cacheable(op.name, params)
                          THEN LoggedSet(setLog, key, CacheTTL(op.name))
                          ELSE setLog
             /\ callResult' = [callResult EXCEPT
                                 ![r] = Some(Success("upstream", answer.rev, {}))]
  /\ pcCall' = [pcCall EXCEPT ![r] = "done"]
  /\ UNCHANGED <<now, callOp, served, upstream, requestsPerMinute, burstLimit,
                 employeesTTL, organizationTTL, policiesTTL, lastGet>>

\* PolicyResources.getAbsenceTypes: the list is built in place, the RateLimiter and
\* the upstream are not involved
PolicyRead(r) ==
  /\ pcCall[r] = "idle"
  /\ \A q \in Calls : q < r => pcCall[q] # "idle"
  /\ callOp' = [callOp EXCEPT ![r] = Some([entry |-> "policyResources",
                                           name |-> AbsenceTypesPolicy, args |-> <<>>])]
  /\ pcCall' = [pcCall EXCEPT ![r] = "done"]
  /\ IF Lookup(cacheData, GetPoliciesKey) # Undefined
     THEN /\ callResult' = [callResult EXCEPT
                              ![r] = Some(Success("cache",
                                                  Val(Lookup(cacheData, GetPoliciesKey)), {}))]
          /\ UNCHANGED <<cacheData, setLog>>
     ELSE /\ callResult' = [callResult EXCEPT ![r] = Some(Success("local", 0, {}))]
          /\ cacheData' = Stored(AfterLookup(cacheData, GetPoliciesKey),
                                 GetPoliciesKey, 0, Some(86400))
          /\ setLog' = LoggedSet(setLog, GetPoliciesKey, Some(86400))
  /\ UNCHANGED <<now, served, upstream, throttleVars, employeesTTL, organizationTTL,
                 policiesTTL, lastGet>>

notCallVars == <<authVars, keyVars, errVars>>

\* the MCP server at work: tool calls through its CallTool handler, the upstream,
\* the timers of queue and cache
DispatchNext ==
  \/ \E r \in Calls, name \in ServerToolNames :
       \E args \in ToolArguments(name) :
         ToolCall(r, "server", name, args) /\ UNCHANGED notCallVars
  \/ \E r \in Calls : UpstreamServes(r) /\ UNCHANGED notCallVars
  \/ \E r \in Calls : ResponseArrives(r) /\ UNCHANGED notCallVars
  \/ IntervalFires /\ UNCHANGED notThrottleVars
  \/ ResumeFires /\ UNCHANGED notThrottleVars
  \/ CheckData /\ UNCHANGED notCacheVars
  \/ ThrottleTick /\ UNCHANGED notThrottleVars

\* a program that owns the tool objects and the CacheManager they share, and calls
\* handleToolCall on them
ToolsNext ==
  \/ \E r \in Calls, entry \in Entries \ {"server"}, name \in ToolNames :
       \E args \in ToolArguments(name) :
         ToolCall(r, entry, name, args) /\ UNCHANGED notCallVars
  \/ \E r \in Calls : UpstreamServes(r) /\ UNCHANGED notCallVars
  \/ \E r \in Calls : ResponseArrives(r) /\ UNCHANGED notCallVars
  \/ IntervalFires /\ UNCHANGED notThrottleVars
  \/ ResumeFires /\ UNCHANGED notThrottleVars
  \/ CheckData /\ UNCHANGED notCacheVars
  \/ ThrottleTick /\ UNCHANGED notThrottleVars

\* the cacheable reads, each with the object that serves it
CachedReads ==
  {<<"employeeTools", "list_employees">>, <<"employeeTools", "get_employee">>,
   <<"absenceTools", "list_absences">>, <<"documentTools", "list_document_categories">>,
   <<"employeeResources", EmployeeDirectory>>,
   <<"organizationResources", OrganizationStructure>>}

\* a program that owns the tools and resources of the server and reads through them
ReadsNext ==
  \/ \E r \in Calls, read \in CachedReads :
       \E args \in ToolArguments(read[2]) :
         ToolCall(r, read[1], read[2], args) /\ UNCHANGED notCallVars
  \/ \E r \in Calls : PolicyRead(r) /\ UNCHANGED notCallVars
  \/ \E r \in Calls : UpstreamServes(r) /\ UNCHANGED notCallVars
  \/ \E r \in Calls : ResponseArrives(r) /\ UNCHANGED notCallVars
  \/ IntervalFires /\ UNCHANGED notThrottleVars
  \/ ResumeFires /\ UNCHANGED notThrottleVars
  \/ CheckData /\ UNCHANGED notCacheVars
  \/ ThrottleTick /\ UNCHANGED notThrottleVars

\* the mutating operations, each with the object that serves it
Mutations ==
  {<<"employeeTools", "update_employee">>, <<"absenceTools", "create_absence_request">>,
   <<"absenceTools", "delete_absence">>, <<"attendanceTools", "create_attendance">>,
   <<"attendanceTools", "delete_attendance">>,
   <<"documentTools", "upload_document_base64">>}

\* a program that owns the tools of the server and writes through them
WritesNext ==
  \/ \E r \in Calls, write \in Mutations :
       \E args \in ToolArguments(write[2]) :
         ToolCall(r, write[1], write[2], args) /\ UNCHANGED notCallVars
  \/ \E r \in Calls : UpstreamServes(r) /\ UNCHANGED notCallVars
  \/ \E r \in Calls : ResponseArrives(r) /\ UNCHANGED notCallVars
  \/ IntervalFires /\ UNCHANGED notThrottleVars
  \/ ResumeFires /\ UNCHANGED notThrottleVars
  \/ CheckData /\ UNCHANGED notCacheVars
  \/ ThrottleTick /\ UNCHANGED notThrottleVars

\* the keys the mutations delete
MutationKeys == {GetEmployeesKey(<<>>), GetEmployeeKey(1), GetAbsencesKey(<<>>)}

\* the CacheManager after the owning program has set some of these keys for a minute
CacheShortLived ==
  /\ employeesTTL = OrDefault(Undefined, 300)
  /\ organizationTTL = OrDefault(Undefined, 3600)
  /\ policiesTTL = OrDefault(Undefined, 86400)
  /\ lastGet = [op |-> "none"]
  /\ \E keys \in SUBSET MutationKeys :
       /\ cacheData = [k \in keys |-> Wrap(1, EffectiveTTL(k, Some(60)))]
       /\ setLog = [k \in keys |-> [at |-> now, ttl |-> EffectiveTTL(k, Some(60)),
                                    arg |-> Some(60)]]

\* CACHE_TTL_ORGANIZATION and CACHE_TTL_POLICIES (index.ts:28-29), unset or set to 60 s
OrganizationTTLOptions == {Undefined, Some(60)}
PoliciesTTLOptions == {Undefined, Some(60)}

\* new CacheManager(config.cache) with each lifetime configured or left to its default
CacheConfigured ==
  /\ \E opt \in EmployeesTTLOptions : employeesTTL = OrDefault(opt, 300)
  /\ \E opt \in OrganizationTTLOptions : organizationTTL = OrDefault(opt, 3600)
  /\ \E opt \in PoliciesTTLOptions : policiesTTL = OrDefault(opt, 86400)
  /\ cacheData = <<>>
  /\ lastGet = [op |-> "none"]
  /\ setLog = <<>>

\* one CacheManager with the default lifetimes, nothing stored
CacheQuiet ==
  /\ CacheInit
  /\ employeesTTL = 300

\* ========================================================== specifications
\* one RateLimiter with the defaults' shape, nothing submitted
ThrottleQuiet ==
  /\ ThrottleInit
  /\ requestsPerMinute = 2
  /\ burstLimit = 1

\* one PersonioAuth in client-credentials mode, nothing called
AuthQuiet ==
  /\ AuthInit
  /\ apiKey = Undefined
  /\ clientId # Undefined
  /\ clientSecret # Undefined

InitAuth ==
  /\ now = StartMs
  /\ AuthInit
  /\ ThrottleQuiet
  /\ CacheQuiet
  /\ KeysQuiet
  /\ ErrorQuiet
  /\ CallInit

InitThrottle ==
  /\ now = StartMs
  /\ AuthQuiet
  /\ ThrottleInit
  /\ CacheQuiet
  /\ KeysQuiet
  /\ ErrorQuiet
  /\ CallInit

InitCache ==
  /\ now = StartMs
  /\ AuthQuiet
  /\ ThrottleQuiet
  /\ CacheInit
  /\ KeysQuiet
  /\ ErrorQuiet
  /\ CallInit

InitKeys ==
  /\ now = StartMs
  /\ AuthQuiet
  /\ ThrottleQuiet
  /\ CacheQuiet
  /\ KeysInit
  /\ ErrorQuiet
  /\ CallInit

\* one PersonioAuth with a static API key: getAuthHeaders answers at once
AuthStatic ==
  /\ AuthInit
  /\ apiKey # Undefined
  /\ clientId = Undefined
  /\ clientSecret = Undefined

InitError ==
  /\ now = StartMs
  /\ AuthQuiet
  /\ ThrottleQuiet
  /\ CacheQuiet
  /\ KeysQuiet
  /\ ErrorInit
  /\ CallInit

InitDispatch ==
  /\ now = StartMs
  /\ AuthStatic
  /\ ThrottleQuiet
  /\ CacheInit
  /\ KeysQuiet
  /\ ErrorQuiet
  /\ CallInit

SpecAuth == InitAuth /\ [][AuthNext]_vars

SpecThrottle == InitThrottle /\ [][ThrottleNext]_vars

InitThrottleEndless ==
  /\ now = StartMs
  /\ AuthQuiet
  /\ ThrottleQuiet
  /\ CacheQuiet
  /\ KeysQuiet
  /\ ErrorQuiet
  /\ CallInit

SpecThrottleEndless == InitThrottleEndless /\ [][EndlessNext]_vars /\ EndlessFairness

SpecCache == InitCache /\ [][CacheNext]_vars

SpecKeys == InitKeys /\ [][KeysNext]_vars

\* the CacheManager after the owning program has set some of the list keys itself
CacheSeeded ==
  /\ employeesTTL = OrDefault(Undefined, 300)
  /\ organizationTTL = OrDefault(Undefined, 3600)
  /\ policiesTTL = OrDefault(Undefined, 86400)
  /\ lastGet = [op |-> "none"]
  /\ \E keys \in SUBSET DirectKeys :
       /\ cacheData = [k \in keys |-> Wrap(1, EffectiveTTL(k, Undefined))]
       /\ setLog = [k \in keys |-> [at |-> now, ttl |-> EffectiveTTL(k, Undefined),
                                    arg |-> Undefined]]

InitTools ==
  /\ now = StartMs
  /\ AuthStatic
  /\ ThrottleQuiet
  /\ CacheSeeded
  /\ KeysQuiet
  /\ ErrorQuiet
  /\ CallInit

InitReads ==
  /\ now = StartMs
  /\ AuthStatic
  /\ ThrottleQuiet
  /\ CacheConfigured
  /\ KeysQuiet
  /\ ErrorQuiet
  /\ CallInit

SpecReads == InitReads /\ [][ReadsNext]_vars

InitWrites ==
  /\ now = StartMs
  /\ AuthStatic
  /\ ThrottleQuiet
  /\ CacheShortLived
  /\ KeysQuiet
  /\ ErrorQuiet
  /\ CallInit

SpecWrites == InitWrites /\ [][WritesNext]_vars

\* the (requestsPerMinute, burstLimit) of a server whose queue runs two jobs at a time
PairLimits == {<<2, 2>>, <<1, 2>>}

\* the tools of EmployeeTools that read and write one employee
EmployeeOps == {"get_employee", "update_employee", "list_employees"}

\* a program that owns an EmployeeTools object and calls handleToolCall on it
EmployeesNext ==
  \/ \E r \in Calls, name \in EmployeeOps :
       \E args \in ToolArguments(name) :
         ToolCall(r, "employeeTools", name, args) /\ UNCHANGED notCallVars
  \/ \E r \in Calls : UpstreamServes(r) /\ UNCHANGED notCallVars
  \/ \E r \in Calls : ResponseArrives(r) /\ UNCHANGED notCallVars
  \/ IntervalFires /\ UNCHANGED notThrottleVars
  \/ ResumeFires /\ UNCHANGED notThrottleVars
  \/ CheckData /\ UNCHANGED notCacheVars
  \/ ThrottleTick /\ UNCHANGED notThrottleVars

InitEmployees ==
  /\ now = StartMs
  /\ AuthStatic
  /\ ThrottleInit
  /\ <<requestsPerMinute, burstLimit>> \in PairLimits
  /\ CacheInit
  /\ KeysQuiet
  /\ ErrorQuiet
  /\ CallInit

SpecEmployees == InitEmployees /\ [][EmployeesNext]_vars

SpecError == InitError /\ [][ErrorNext]_vars

SpecDispatch == InitDispatch /\ [][DispatchNext]_vars

SpecTools == InitTools /\ [][ToolsNext]_vars

\* ------------------------------------------------------ claims: PersonioAuth
ClientCredentialsMode == apiKey = Undefined

InFlightGrants == {c \in Callers : pcAuth[c] = "posting"}

\* C1: in client-credentials mode, getAuthHeaders() calls that overlap while no
\* valid token is held cause one token-acquisition request, not one per caller:
\* at most one POST /v2/auth/token is in flight at any instant.
C1_SingleFlight ==
  ClientCredentialsMode => Cardinality(InFlightGrants) <= 1

\* C9: after a successful acquisition the stored tokenExpiry is the issue instant
\* plus (expires_in - 300) seconds, 300 s before the upstream-reported expiry.
C9_ExpiryMargin ==
  accessToken # Undefined =>
    LET grant == grantLog[Val(accessToken)] IN
    /\ tokenExpiry # Undefined
    /\ Val(tokenExpiry) = grant.issuedAt + (grant.expires_in - 300) * 1000
    /\ Val(tokenExpiry) + 300 * 1000 = grant.issuedAt + grant.expires_in * 1000

C9_Witness ==
  /\ accessToken # Undefined
  /\ grantLog[Val(accessToken)].expires_in = 360
  /\ grantLog[Val(accessToken)].issuedAt > StartMs
  /\ now > grantLog[Val(accessToken)].issuedAt

\* a token is stored and the clock has not reached its tokenExpiry
StoredTokenFresh ==
  /\ accessToken # Undefined
  /\ tokenExpiry # Undefined
  /\ now < Val(tokenExpiry)

\* this step is a getAuthHeaders() call by c that settles without a network call
\* by handing out the stored token
ReusesStoredToken(c) ==
  /\ pcAuth[c] = "idle"
  /\ pcAuth'[c] = "returned"
  /\ grantRequests' = grantRequests
  /\ authResult'[c].kind = "bearer"
  /\ accessToken # Undefined
  /\ authResult'[c].token = Val(accessToken)

\* this step hands c a header built from the token stored after the step
ReturnsBearer(c) ==
  /\ pcAuth[c] # "returned"
  /\ pcAuth'[c] = "returned"
  /\ authResult'[c].kind = "bearer"

\* this step is the settling of c's own acquisition, which stores a new token
StoresOwnGrant(c) ==
  /\ pcAuth[c] = "posting"
  /\ accessToken' # accessToken
  /\ accessToken' = Some(authResult'[c].token)

\* C10 as stated: a call reuses the stored token without a network call iff a
\* token is stored and now < tokenExpiry, and no returned header carries a stored
\* token once now >= its tokenExpiry.
C10_ReuseIffFresh_Original ==
  [][\A c \in Callers :
       /\ (ClientCredentialsMode /\ pcAuth[c] = "idle" /\ pcAuth'[c] # "idle")
             => (ReusesStoredToken(c) <=> StoredTokenFresh)
       /\ (ClientCredentialsMode /\ ReturnsBearer(c))
             => now < Val(tokenExpiry')]_vars

\* C10 (amended): a call reuses the stored token without a network call iff a
\* token is stored and now < tokenExpiry; the only header carrying a token at
\* now >= its tokenExpiry is the one handed to the caller whose own acquisition
\* has just stored that token.
C10_ReuseIffFresh ==
  [][\A c \in Callers :
       /\ (ClientCredentialsMode /\ pcAuth[c] = "idle" /\ pcAuth'[c] # "idle")
             => (ReusesStoredToken(c) <=> StoredTokenFresh)
       /\ (ClientCredentialsMode /\ ReturnsBearer(c))
             => (now < Val(tokenExpiry') \/ StoresOwnGrant(c))]_vars

\* a caller holds a reused token while another holds one whose expiry had
\* already passed when its own acquisition returned it
C10_Witness ==
  \E c, d \in Callers :
    /\ authResult[c].kind = "bearer" /\ authResult[c].reused
    /\ authResult[c].at > grantLog[authResult[c].token].issuedAt
    /\ authResult[d].kind = "bearer" /\ ~authResult[d].reused
    /\ grantLog[authResult[d].token].expires_in <= 300

\* this step settles a getAuthHeaders() call of c with an error
AuthFails(c) ==
  /\ pcAuth[c] # "returned"
  /\ pcAuth'[c] = "returned"
  /\ authResult'[c].kind = "error"

CredentialsMissing == clientId = Undefined \/ clientSecret = Undefined

\* C21: in client-credentials mode a getAuthHeaders() call that fails leaves the
\* stored token and its expiry as they were; without credentials it fails at once,
\* with no request issued. Failures leave nothing behind that holds up later calls:
\* whenever no fresh token is stored and the credentials are there, a call issues a
\* new grant request, and a grant that carries a token gives the caller that token.
C21_FailureNotSticky ==
  [][\A c \in Callers :
       /\ (ClientCredentialsMode /\ AuthFails(c)) =>
            /\ accessToken' = accessToken
            /\ tokenExpiry' = tokenExpiry
            /\ CredentialsMissing =>
                 (pcAuth[c] = "idle" /\ grantRequests' = grantRequests)
       /\ (/\ ClientCredentialsMode
           /\ pcAuth[c] = "idle" /\ pcAuth'[c] # "idle"
           /\ ~StoredTokenFresh /\ ~CredentialsMissing) =>
            (pcAuth'[c] = "posting" /\ grantRequests' = grantRequests + 1)
       /\ (pcAuth[c] = "posting" /\ pcAuth'[c] = "returned" /\ grantLog' # grantLog) =>
            /\ authResult'[c].kind = "bearer"
            /\ accessToken' = Some(authResult'[c].token)]_vars

\* a grant request was refused, and a grant made after that failure gave its
\* caller the token that is now stored
C21_Witness ==
  \E c, d \in Callers :
    /\ authResult[d].kind = "error"
    /\ grantRequests = 2
    /\ authResult[c].kind = "bearer" /\ ~authResult[c].reused
    /\ grantLog[authResult[c].token].issuedAt > authResult[d].at
    /\ accessToken = Some(authResult[c].token)

\* this step is the end of a revokeToken() call that found a token and posted it
RevokeFinishes == pcRevoke = "posting" /\ pcRevoke' = "idle"

\* C22: when a revokeToken() call that found a token finishes, whether the
\* revocation call was answered or failed, neither a token nor a tokenExpiry is
\* stored at that moment, whatever was stored while the call was under way.
C22_RevokeClears ==
  [][RevokeFinishes =>
       /\ accessToken' = Undefined
       /\ tokenExpiry' = Undefined
       /\ revokeResult' \in {"revoked", "failed"}]_vars

\* a revocation call has failed and no token is stored, although a second token
\* had been granted by then
C22_Witness ==
  /\ revokeResult = "failed"
  /\ pcRevoke = "idle"
  /\ accessToken = Undefined
  /\ tokenExpiry = Undefined
  /\ Len(grantLog) = 2
  /\ \A c \in Callers : pcAuth[c] # "posting"

\* the grant response that carried the stored token
StoredGrant == grantLog[Val(accessToken)]

\* C23: in every state between the steps of interleaved getAuthHeaders and
\* revokeToken calls, a stored token comes with a stored tokenExpiry, and that
\* expiry is the one computed from the grant response that carried the token.
C23_TokenWithItsExpiry ==
  accessToken # Undefined =>
    /\ tokenExpiry # Undefined
    /\ Val(accessToken) \in DOMAIN grantLog
    /\ Val(tokenExpiry) =
         StoredGrant.issuedAt + (StoredGrant.expires_in - SafetyMarginS) * MsPerSecond

\* the token of a second grant, served with another lifetime than the first, is
\* stored after a revocation has finished, and a caller holds a bearer header
C23_Witness ==
  /\ accessToken = Some(2)
  /\ revokeResult \in {"revoked", "failed"}
  /\ StoredGrant.expires_in # grantLog[1].expires_in
  /\ \E c \in Callers : authResult[c].kind = "bearer"

StaticKeyMode == apiKey # Undefined

\* C24: with a static key configured, every getAuthHeaders() call returns at once
\* the header set that carries that key as X-Personio-App-ID, whether or not client
\* credentials are configured too; no grant request is ever issued and no token or
\* tokenExpiry is ever stored.
C24_StaticKeyHeaders ==
  /\ [][\A c \in Callers :
          (StaticKeyMode /\ pcAuth[c] = "idle" /\ pcAuth'[c] # "idle") =>
            /\ pcAuth'[c] = "returned"
            /\ authResult'[c] = [kind |-> "apiKey", appId |-> Val(apiKey)]
            /\ UNCHANGED <<accessToken, tokenExpiry, grantRequests, grantLog>>]_vars
  /\ [](StaticKeyMode =>
          /\ grantRequests = 0
          /\ accessToken = Undefined /\ tokenExpiry = Undefined
          /\ \A c \in Callers : pcAuth[c] # "posting")

\* with a static key and client credentials both configured, all callers hold
\* the key's header set, some time after the start
C24_Witness ==
  /\ StaticKeyMode
  /\ clientId # Undefined /\ clientSecret # Undefined
  /\ \A c \in Callers : authResult[c] = [kind |-> "apiKey", appId |-> "test-api-key"]
  /\ now > StartMs

\* ------------------------------------------------------- claims: RateLimiter
InFlight == {t \in Tasks : taskState[t] = "running"}

\* C2: at every instant the number of tasks admitted by RateLimiter.execute and
\* not yet completed is at most the configured concurrency cap burstLimit.
C2_ConcurrencyCap ==
  Cardinality(InFlight) <= burstLimit

\* the cap is reached with two tasks in flight while another task waits
C2_Witness ==
  /\ burstLimit = 2
  /\ Cardinality(InFlight) = 2
  /\ queue # <<>>
  /\ \E t \in Tasks : taskState[t] \in {"resolved", "rejected"}

\* the tasks started in the window opened by the i-th reset of the counter,
\* or in a later one, before that window's 60 s have passed
StartedInBucket(i) ==
  {t \in Tasks : /\ startLog[t] # <<>>
                 /\ Val(startLog[t]).win >= i
                 /\ Val(startLog[t]).at < windowLog[i] + IntervalMs}

\* the tasks started since the latest reset of the counter
StartedSinceReset ==
  {t \in Tasks : startLog[t] # <<>> /\ Val(startLog[t]).win = Len(windowLog)}

\* C3: within any one bucket [windowStart, windowStart + 60 s) of the throttle at
\* most requestsPerMinute tasks are started, and the per-window counter restarts
\* from 0 when the bucket rolls over.
C3_IntervalCap ==
  /\ \A i \in 1..Len(windowLog) : Cardinality(StartedInBucket(i)) <= requestsPerMinute
  /\ intervalCount = Cardinality(StartedSinceReset)

\* ------------------------------------------------------ claims: CacheManager
\* C4: get never returns a value whose lifetime has elapsed: once the TTL applied
\* at the last set of the key has passed, get returns absent and has returns false.
C4_NoExpiredValue ==
  (lastGet.op \in {"get", "has"} /\ lastGet.value # Undefined) =>
    /\ lastGet.key \in DOMAIN setLog
    /\ lastGet.at <= setLog[lastGet.key].at + setLog[lastGet.key].ttl * 1000

\* a get finds nothing for a key that was set, is still stored, and has outlived its TTL
C4_Witness ==
  /\ lastGet.op = "get"
  /\ lastGet.value = Undefined
  /\ lastGet.key \in DOMAIN setLog
  /\ lastGet.at > setLog[lastGet.key].at + setLog[lastGet.key].ttl * 1000
  /\ \E k \in DOMAIN cacheData : k # lastGet.key

\* the two parameter objects hold the same filter names and values
SameFilters ==
  {keyParams[1][i] : i \in DOMAIN keyParams[1]} = {keyParams[2][i] : i \in DOMAIN keyParams[2]}

\* C5: two parameter objects holding the same filter names and values in
\* different insertion order get the identical key from getEmployeesKey and
\* from getAbsencesKey.
C5_KeyCanonical ==
  (keyOut # <<>> /\ SameFilters) =>
    /\ keyOut.employees[1] = keyOut.employees[2]
    /\ keyOut.absences[1] = keyOut.absences[2]

\* ------------------------------------------------------- claims: formatError
\* formatError was given an error whose response body is exactly {error: {message: M}}
CarriesErrorBody ==
  /\ errThrown.type = "object"
  /\ errThrown.response # Undefined
  /\ Val(errThrown.response).data # Undefined
  /\ Val(Val(errThrown.response).data).message = Undefined
  /\ DataErrorMessage(Val(errThrown.response).data) # Undefined
  /\ DataErrorCode(Val(errThrown.response).data) = Undefined

\* C8: formatError applied to an error that carries an HTTP response with status S
\* and body {error: {message: M}} returns the code HTTP_<S> and the message M.
C8_ResponseBodyMessage ==
  (errOut # Undefined /\ CarriesErrorBody) =>
    /\ ~Val(errOut).threw
    /\ Val(errOut).code = Some("HTTP_" \o ToString(Val(errThrown.response).status))
    /\ Val(errOut).message = DataErrorMessage(Val(errThrown.response).data)

\* -------------------------------------------------------- claims: tool calls
\* the upstream answered call r with an error status
AnsweredWithStatus(r) ==
  /\ served[r] # Undefined
  /\ ~Val(served[r]).ok
  /\ Val(served[r]).error.response # Undefined

\* C7: when the upstream answers a request with HTTP status S, the failure the
\* server's tool-call handler reports carries the code HTTP_<S> and the upstream's message.
C7_StatusReported ==
  \A r \in Calls :
    (pcCall[r] = "done" /\ Val(callOp[r]).entry = "server" /\ AnsweredWithStatus(r)) =>
      /\ ~Val(callResult[r]).ok
      /\ Val(Val(callResult[r]).reported).code =
           Some("HTTP_" \o ToString(Val(Val(served[r]).error.response).status))
      /\ Val(Val(callResult[r]).reported).message =
           DataErrorMessage(Val(Val(served[r]).error.response).data)

\* the key of the entity's list read without parameters
ListKey(name) ==
  IF Entity(name) = "employees" THEN GetEmployeesKey(<<>>) ELSE GetAbsencesKey(<<>>)

\* in this step the mutation of call r returns successfully to its caller
MutationCompletes(r) ==
  /\ pcCall[r] = "served"
  /\ pcCall'[r] = "done"
  /\ IsMutation(Val(callOp[r]).name)
  /\ Val(callResult'[r]).ok

\* C6: once create_absence_request, delete_absence or update_employee has completed
\* successfully, the cache holds nothing under the entity's unparameterized list key
\* (absences:{} or employees:{}), whatever it held before.
C6_ListKeyInvalidated ==
  [][\A r \in Calls :
       MutationCompletes(r) => ListKey(Val(callOp[r]).name) \notin DOMAIN cacheData']_vars

\* a mutation has completed successfully, the list key was held when it did and is gone
C6_Witness ==
  \E r \in Calls :
    /\ pcCall[r] = "done"
    /\ IsMutation(Val(callOp[r]).name)
    /\ Val(callResult[r]).ok
    /\ ListKey(Val(callOp[r]).name) \in Val(callResult[r]).held
    /\ ListKey(Val(callOp[r]).name) \notin DOMAIN cacheData

\* --------------------------------------------- claims: RateLimiter, admission
Started(t) == startLog[t] # <<>>

\* the submission of t left it waiting in the queue
LeftWaiting(t) ==
  \/ taskState[t] = "queued"
  \/ Started(t) /\ Val(startLog[t]).waited

\* C11: tasks that could not be admitted at submission start in the order they were
\* submitted: for waiting tasks a submitted before b (tasks are submitted in the
\* order of their numbers), b never starts before a.
C11_FifoAdmission ==
  \A a, b \in Tasks :
    (a < b /\ LeftWaiting(a) /\ LeftWaiting(b) /\ Started(b)) =>
      /\ Started(a)
      /\ Val(startLog[a]).seq < Val(startLog[b]).seq

\* two tasks that both waited have started, the earlier one first
C11_Witness ==
  \E a, b \in Tasks :
    /\ a < b
    /\ Started(a) /\ Val(startLog[a]).waited
    /\ Started(b) /\ Val(startLog[b]).waited
    /\ Val(startLog[a]).seq < Val(startLog[b]).seq

HasSettled(t) == taskState[t] \in {"resolved", "rejected"}

\* C12: no task is turned away because of the caps: with in-flight tasks completing,
\* time advancing and clear() never called, every submitted task eventually starts
\* and settles with the outcome of its own work.
C12_EveryTaskServed ==
  \A t \in Tasks : (taskState[t] # "new") ~> (Started(t) /\ HasSettled(t))

\* more tasks than one window admits have all been served, some after waiting
C12_Witness ==
  /\ Cardinality({t \in Tasks : Started(t) /\ HasSettled(t)}) > QueueIntervalCap
  /\ \E t \in Tasks : Started(t) /\ HasSettled(t) /\ Val(startLog[t]).waited

\* in this step task t, which was running, completes
Completes(t) ==
  /\ taskState[t] = "running"
  /\ taskState'[t] \in {"resolved", "rejected"}

\* the tasks this step takes from the queue and starts
StartedNow == {u \in Tasks : taskState[u] = "queued" /\ taskState'[u] = "running"}

\* C13: every completion of an admitted task, by success or by failure, releases
\* exactly one concurrency slot, and a failure leaves the other tasks where a success
\* would: the queue keeps its order and the same waiting tasks are started.
C13_SlotReleased ==
  [][\A t \in Tasks :
       Completes(t) =>
         /\ pending' = pending - 1 + Cardinality(StartedNow)
         /\ pending' = Cardinality({u \in Tasks : taskState'[u] = "running"})
         /\ queue' = SubSeq(queue, Cardinality(StartedNow) + 1, Len(queue))
         /\ StartedNow = {u \in Tasks : /\ taskState[u] = "queued"
                                        /\ Settled(t, "resolved").taskState[u] = "running"}
         /\ \A u \in Tasks \ ({t} \cup StartedNow) : taskState'[u] = taskState[u]]_vars

\* a task has failed and a task that waited behind it was started afterwards
C13_Witness ==
  \E t, u \in Tasks :
    /\ taskState[t] = "rejected"
    /\ Started(u) /\ Val(startLog[u]).waited
    /\ Val(startLog[u]).seq > Val(startLog[t]).seq

\* ------------------------------------------------- claims: reads and mutations
\* in this step call r begins: its handler runs up to its first await
Begins(r) == pcCall[r] = "idle" /\ pcCall'[r] # "idle"

\* the operation of call r, its parsed input and the key it looks up
OpName(r) == Val(callOp[r]).name
OpParams(r) == Parsed(OpName(r), Val(callOp[r]).args)
OpKey(r) == CacheKey(OpName(r), OpParams(r))

\* call r has ended with a value taken from the given source
ServedFrom(r, source) ==
  /\ callResult[r] # Undefined
  /\ Val(callResult[r]).ok
  /\ Val(callResult[r]).source = source

\* C14: a cacheable read that finds a live entry under its key returns the cached
\* value at once, is not handed to the RateLimiter and causes no upstream call; a
\* read that finds none is handed to the RateLimiter, and only such reads are
\* answered by the upstream.
C14_HitSkipsThrottle ==
  /\ [][\A r \in Calls :
          (Begins(r) /\ IsRead(OpName(r)') /\ Valid(OpName(r)', Val(callOp'[r]).args)) =>
            LET hit == Lookup(cacheData, OpKey(r)')
            IN IF hit # Undefined
               THEN /\ pcCall'[r] = "done"
                    /\ callResult'[r] = Some(Success("cache", Val(hit), {}))
                    /\ UNCHANGED <<throttleVars, upstream, served>>
               ELSE /\ pcCall'[r] = "admitted"
                    /\ taskState'[r] \in {"queued", "running"}]_vars
  /\ [](\A r \in Calls :
          ServedFrom(r, "cache") => taskState[r] = "new" /\ served[r] = Undefined)

\* a read was answered by the upstream and a later read of the same key from the cache
C14_Witness ==
  \E q, r \in Calls :
    /\ q < r
    /\ ServedFrom(q, "upstream")
    /\ ServedFrom(r, "cache")
    /\ IsRead(OpName(r))
    /\ OpKey(q) = OpKey(r)

\* in this step call r moves on: its handler runs from one await to the next
Moves(r) == pcCall'[r] # pcCall[r]

\* C15: a mutating operation never reads the cache and never writes an entry: each
\* step of its handler leaves every entry that stays as it was and adds none, logs no
\* set and no get; up to its upstream call it leaves the cache as it is (a lookup
\* would drop an expired entry); and its result never comes from the cache.
C15_MutationOnlyDeletes ==
  /\ [][\A r \in Calls :
          (Moves(r) /\ IsMutation(OpName(r)')) =>
            /\ DOMAIN cacheData' \subseteq DOMAIN cacheData
            /\ \A k \in DOMAIN cacheData' : cacheData'[k] = cacheData[k]
            /\ setLog' = setLog
            /\ lastGet' = lastGet
            /\ Begins(r) => cacheData' = cacheData]_vars
  /\ [](\A r \in Calls :
          (callOp[r] # Undefined /\ IsMutation(OpName(r))) => ~ServedFrom(r, "cache"))

\* a mutation has completed and deleted an entry, and another one, which deletes no
\* key, has completed while entries were stored
C15_Witness ==
  \E q, r \in Calls :
    /\ ServedFrom(q, "upstream") /\ IsMutation(OpName(q))
    /\ Val(callResult[q]).held # {}
    /\ ServedFrom(r, "upstream") /\ IsMutation(OpName(r))
    /\ Invalidated(OpName(r), OpParams(r)) = {}
    /\ cacheData # <<>>

\* in this step call r, whose upstream call has failed, ends
Fails(r) == pcCall[r] = "served" /\ ~Val(served[r]).ok /\ pcCall'[r] = "done"

\* call r has ended with an error and no value
Failed(r) == callResult[r] # Undefined /\ ~Val(callResult[r]).ok

\* C16: an operation whose upstream call fails ends with the failure alone, and the
\* step in which it ends leaves the cache as it was: no entry is set, none deleted.
\* The lookup a read made before that call has not changed what the cache answers.
C16_FailureLeavesCache ==
  [][\A r \in Calls :
       /\ Fails(r) =>
            /\ cacheData' = cacheData
            /\ setLog' = setLog
            /\ Failed(r)'
            /\ Val(callResult'[r]).thrown = HandleError(Val(served[r]).error)
            /\ upstream' = upstream
       /\ (Begins(r) /\ pcCall'[r] = "admitted") =>
            \A k \in DOMAIN cacheData \cup DOMAIN cacheData' :
              Lookup(cacheData', k) = Lookup(cacheData, k)]_vars

\* a read and a mutation have both failed upstream while the cache held the entry
\* the mutation deletes on success
C16_Witness ==
  \E q, r \in Calls :
    /\ Failed(q) /\ served[q] # Undefined /\ IsRead(OpName(q))
    /\ Failed(r) /\ served[r] # Undefined /\ IsMutation(OpName(r))
    /\ Invalidated(OpName(r), OpParams(r)) \cap DOMAIN cacheData # {}

\* input no schema of the tools accepts: a required field is missing, or limit lies
\* outside 1..50
Malformed(name, args) ==
  \/ \E f \in Required(name) : Field(args, f) = Undefined
  \/ /\ Field(args, "limit") # Undefined
     /\ Val(Field(args, "limit")) \notin 1..50

\* call r has been rejected by schema.parse
Rejected(r) == Failed(r) /\ Val(callResult[r]).thrown = ZodError

\* C17: a call whose input fails validation ends at once with the validation error:
\* the cache is neither looked up nor written, nothing is handed to the RateLimiter,
\* no upstream call is made, and every other call stays as it is.
C17_RejectedBeforeEffects ==
  [][\A r \in Calls :
       (/\ Begins(r)
        /\ Handles(Val(callOp'[r]).entry, OpName(r)')
        /\ Malformed(OpName(r)', Val(callOp'[r]).args)) =>
         /\ pcCall'[r] = "done"
         /\ Rejected(r)'
         /\ UNCHANGED <<cacheVars, throttleVars, upstream, served>>
         /\ \A q \in Calls \ {r} :
              /\ pcCall'[q] = pcCall[q]
              /\ callOp'[q] = callOp[q]
              /\ callResult'[q] = callResult[q]]_vars

\* a call was rejected for its input while the cache held entries, and the call made
\* after it was served by the upstream
C17_Witness ==
  \E q, r \in Calls :
    /\ q < r
    /\ Rejected(q)
    /\ Malformed(OpName(q), Val(callOp[q]).args)
    /\ cacheData # <<>>
    /\ ServedFrom(r, "upstream")

\* the key is an absences key made from parameters that have a status
HasStatusParameter(key) == StartsWith(key, "absences:") /\ Includes(key, "\"status\":")

\* call r is a list_absences filtered by status
StatusRead(r) ==
  /\ callOp[r] # Undefined
  /\ OpName(r) = "list_absences"
  /\ Field(Val(callOp[r]).args, "status") # Undefined

\* C18: the cache never holds an absences entry whose key has a status parameter, and
\* a list_absences filtered by status that has ended with a value got it from the
\* upstream.
C18_StatusNeverCached ==
  /\ \A k \in DOMAIN cacheData : ~HasStatusParameter(k)
  /\ \A r \in Calls :
       (StatusRead(r) /\ callResult[r] # Undefined /\ Val(callResult[r]).ok) =>
         ServedFrom(r, "upstream")

\* the same filtered read was served by the upstream twice, the second one after a
\* wait in the queue, and the cache holds nothing
C18_Witness ==
  \E q, r \in Calls :
    /\ q < r
    /\ StatusRead(q) /\ ServedFrom(q, "upstream")
    /\ StatusRead(r) /\ ServedFrom(r, "upstream")
    /\ HasStatusParameter(OpKey(r))
    /\ OpKey(q) = OpKey(r)
    /\ taskState[q] = "resolved"
    /\ Val(startLog[r]).waited
    /\ cacheData = <<>>

\* ------------------------------------------------- claims: cache lifetimes
\* the expiry instant NodeCache gives an entry set at instant at for ttl seconds
\* (a ttl of 0 asks for an entry that never expires)
ExpiryOf(at, ttl) == IF ttl = 0 THEN 0 ELSE at + ttl * MsPerSecond

\* C19: an entry set with an explicit ttl lives for exactly that ttl, whatever the
\* ttl and the key: the entry of every key last set with a ttl argument expires at
\* the instant that argument gives.
C19_ExplicitTTL ==
  \A k \in DOMAIN cacheData :
    (k \in DOMAIN setLog /\ setLog[k].arg # Undefined) =>
      cacheData[k].t = ExpiryOf(setLog[k].at, Val(setLog[k].arg))

\* the same for the ttl arguments other than 0
C19_NonZeroTTL ==
  \A k \in DOMAIN cacheData :
    (k \in DOMAIN setLog /\ setLog[k].arg # Undefined /\ Val(setLog[k].arg) # 0) =>
      cacheData[k].t = ExpiryOf(setLog[k].at, Val(setLog[k].arg))

\* the lifetime the configuration gives the namespace of a key
ConfiguredTTL(key) ==
  IF StartsWith(key, "employees:") \/ StartsWith(key, "employee:") THEN Some(employeesTTL)
  ELSE IF key = GetOrganizationKey THEN Some(organizationTTL)
  ELSE IF key = GetPoliciesKey THEN Some(policiesTTL)
  ELSE Undefined

\* C20: the configured lifetimes govern what the server caches: every entry of
\* list_employees and get_employee is set to live employeesTTL seconds, the
\* organization structure organizationTTL seconds, the policy entry policiesTTL
\* seconds.
C20_ConfiguredTTLGoverns ==
  \A k \in DOMAIN setLog :
    ConfiguredTTL(k) # Undefined => setLog[k].ttl = Val(ConfiguredTTL(k))

\* the part of it that holds: the entries of list_employees
C20_ListEmployeesTTL ==
  \A k \in DOMAIN setLog :
    StartsWith(k, "employees:") => setLog[k].ttl = employeesTTL

\* ------------------------------------------------- claims: error descriptors
\* the cases of the classification an error matches
IsTagged(error) == error.class = "PersonioMCPError"
CarriesResponse(error) == error.response # Undefined
CarriesCode(error) == error.code # Undefined /\ Val(error.code) # ""

C26_FormatErrorTotal ==
  errOut # Undefined => ~Val(errOut).threw

\* the same for the values that have properties
C26_TotalOnObjects ==
  (errOut # Undefined /\ errThrown.type = "object") =>
    /\ ~Val(errOut).threw
    /\ Val(errOut).code # Undefined

\* the codes of the taxonomy
InTaxonomy(code) ==
  \/ code \in {"ValidationError", "AuthError", "NETWORK_ERROR", "UNKNOWN_ERROR"}
  \/ StartsWith(code, "HTTP_")

\* formatError has returned a descriptor for a failure as the server can see it:
\* the errors of axios have passed the catch block or the interceptor that stands
\* between them and the server, and nothing in the server throws a PersonioMCPError
ReachedCaller ==
  /\ errOut # Undefined
  /\ ~Val(errOut).threw
  /\ errRaised.class = "AxiosError" => Len(errPath) > 1
  /\ errRaised.class # "PersonioMCPError"

\* the error objects made for the failure after the one it began with
Rewraps == Len(errPath) - 1

\* C27: every descriptor returned to a caller has a code of the taxonomy, and the
\* failure behind it was wrapped into a new error object at most once.
C27_TaxonomyWrappedOnce ==
  ReachedCaller =>
    /\ Val(errOut).code # Undefined
    /\ InTaxonomy(Val(Val(errOut).code))
    /\ Rewraps <= 1

\* the part of it that holds: the codes are codes of the taxonomy
C27_CodeInTaxonomy ==
  ReachedCaller =>
    /\ Val(errOut).code # Undefined
    /\ InTaxonomy(Val(Val(errOut).code))

\* ---------------------------------------------------------------------------
\* claims: one upstream request per operation
\* ---------------------------------------------------------------------------

\* the request of call r goes out and is answered in this step
RequestAnswered(r) == pcCall[r] = "admitted" /\ pcCall'[r] = "served"

\* call r holds a failed answer of the upstream and its handler moves on
FailureHandled(r) ==
  /\ pcCall[r] = "served"
  /\ ~Val(served[r]).ok
  /\ pcCall'[r] # pcCall[r]

AnsweredTooManyRequests(r) ==
  /\ pcCall[r] = "served"
  /\ ~Val(served[r]).ok
  /\ Val(served[r]).error.response # Undefined
  /\ Val(Val(served[r]).error.response).status = 429

\* C29: when the upstream answers a call with HTTP 429, the server sends the request
\* of that call again instead of ending the call.
C29_RetriesOn429 ==
  [][\A r \in Calls :
       (AnsweredTooManyRequests(r) /\ pcCall'[r] # pcCall[r]) =>
         /\ pcCall'[r] = "admitted"
         /\ callResult'[r] = Undefined]_vars

\* ---------------------------------------------------------------------------
\* claims: routing of the listed tools
\* ---------------------------------------------------------------------------

\* call r came through the server's CallTool handler with a name the server lists
CallsListedTool(r) ==
  /\ callOp[r] # Undefined
  /\ Val(callOp[r]).entry = "server"
  /\ Val(callOp[r]).name \in AdvertisedTools

\* call r ended with the error of a name that no branch of the routing takes
EndedUnknownTool(r) ==
  /\ callResult[r] # Undefined
  /\ ~Val(callResult[r]).ok
  /\ Val(callResult[r]).thrown.message = Some("Unknown tool: " \o Val(callOp[r]).name)

\* C30: a call of a tool the server lists is routed to the tools object that has a
\* case for it, and never ends in "Unknown tool".
C30_ListedToolsRouted ==
  \A r \in Calls :
    CallsListedTool(r) =>
      /\ Handles(Route(Val(callOp[r]).name), Val(callOp[r]).name)
      /\ ~EndedUnknownTool(r)

\* ---------------------------------------------------------------------------
\* claims: search_employees
\* ---------------------------------------------------------------------------

\* call r is search_employees through the server with a non-empty query and, if one
\* is given, a limit the schema takes
SearchesWithQuery(r) ==
  /\ callOp[r] # Undefined
  /\ Val(callOp[r]).name = "search_employees"
  /\ Field(Val(callOp[r]).args, "query") \notin {Undefined, Some("")}
  /\ Field(Val(callOp[r]).args, "limit") \in {Undefined, Some(1)}

\* C31: search_employees with a valid non-empty query gets the employee list by the
\* way of list_employees (the cache, else one upstream fetch) and returns the matches:
\* such a call is never turned down as a call with invalid arguments.
C31_SearchReturnsMatches ==
  \A r \in Calls :
    (SearchesWithQuery(r) /\ callResult[r] # Undefined) =>
      \/ Val(callResult[r]).ok
      \/ Val(callResult[r]).thrown.class # "ZodError"

\* ---------------------------------------------------------------------------
\* claims: one throttle for all handlers
\* ---------------------------------------------------------------------------

\* the calls whose request is at the upstream, its answer not yet back at the handler
RequestsInFlight ==
  {r \in Calls : pcCall[r] \in {"admitted", "served"} /\ taskState[r] = "running"}

\* C32: the handlers of one server share one throttle: a request is answered only
\* while its job runs in the queue, and over all handlers together the requests in
\* flight never exceed the concurrency cap.
C32_SharedThrottle ==
  /\ Cardinality(RequestsInFlight) <= burstLimit
  /\ \A r \in Calls : pcCall[r] = "served" => r \in RequestsInFlight
  /\ \A r \in Calls : pcCall[r] = "admitted" => taskState[r] \in {"queued", "running"}

\* a call on one tools object holds the only slot while a call on another waits
C32_Witness ==
  \E r, q \in Calls :
    /\ callOp[r] # Undefined
    /\ callOp[q] # Undefined
    /\ Val(callOp[r]).entry = "attendanceTools"
    /\ Val(callOp[q]).entry = "employeeTools"
    /\ pcCall[r] = "served"
    /\ pcCall[q] = "admitted"
    /\ taskState[q] = "queued"
    /\ Cardinality(RequestsInFlight) = burstLimit

\* ---------------------------------------------------------------------------
\* claims: clear()
\* ---------------------------------------------------------------------------

\* this step is a clear() that found tasks waiting
Drops == \E t \in Tasks : taskState[t] # "dropped" /\ taskState'[t] = "dropped"

\* C33: clear() takes every task that waits out of the queue and none of them is
\* started afterwards; the tasks in flight are left alone, run to their end and
\* give their slot back when they end.
C33_ClearDropsWaiting ==
  /\ [][Drops =>
          /\ queue' = <<>>
          /\ \A u \in Tasks : taskState[u] = "queued" => taskState'[u] = "dropped"
          /\ \A u \in Tasks : taskState[u] # "queued" => taskState'[u] = taskState[u]
          /\ pending' = pending]_vars
  /\ [][\A t \in Tasks : taskState[t] = "dropped" => taskState'[t] = "dropped"]_vars
  /\ [][\A t \in Tasks :
          (Completes(t) /\ \E u \in Tasks : taskState[u] = "dropped") =>
            pending' = pending - 1 + Cardinality(StartedNow)]_vars
  /\ [](pending = Cardinality({u \in Tasks : taskState[u] = "running"}))

\* two waiting tasks were dropped, and the task that was in flight has ended and
\* left no slot taken
C33_Witness ==
  /\ Cardinality({t \in Tasks : taskState[t] = "dropped"}) >= 2
  /\ \E u \in Tasks : taskState[u] \in {"resolved", "rejected"}
  /\ pending = 0

\* ---------------------------------------------------------------------------
\* claims: callers that wait for a token together
\* ---------------------------------------------------------------------------

\* caller c holds a header with a token acquired by its own call
HoldsNewToken(c) ==
  /\ pcAuth[c] = "returned"
  /\ authResult[c].kind = "bearer"
  /\ ~authResult[c].reused

\* revokeToken has never been called
NeverRevoked == pcRevoke = "idle" /\ revokeResult = "none"

\* the token of caller c has been valid from its grant until now
ValidSinceGrant(c) ==
  LET grant == grantLog[authResult[c].token] IN
  /\ grant.expires_in > SafetyMarginS
  /\ now < ExpiryFor(grant.issuedAt, grant.expires_in)

\* callers c and d were both waiting for a token when the token of c arrived: each
\* holds a token acquired by its own call, and the token of c, the older of the two,
\* has been valid ever since, so that d cannot have begun after it was stored
WaitedTogether(c, d) ==
  /\ c # d
  /\ ClientCredentialsMode
  /\ HoldsNewToken(c)
  /\ HoldsNewToken(d)
  /\ authResult[c].token <= authResult[d].token
  /\ NeverRevoked
  /\ ValidSinceGrant(c)

\* C34: callers of getAuthHeaders that wait during one token acquisition get the same
\* outcome; when they get headers, the headers carry the same newly acquired token.
C34_UniformOutcome ==
  \A c, d \in Callers :
    WaitedTogether(c, d) => authResult[c].token = authResult[d].token

\* ---------------------------------------------------------------------------
\* claims: the keys of the list operations
\* ---------------------------------------------------------------------------

\* a key of list_employees or list_absences
IsListEntry(k) == StartsWith(k, "employees:") \/ StartsWith(k, "absences:")

\* C35: in the server nothing is ever stored under employees:{} or absences:{}, the
\* keys the mutations delete; list_employees and list_absences store under a key with
\* limit and offset in it, and such an entry leaves the cache only when it has
\* expired, never by a mutation.
C35_ListEntriesOutliveMutations ==
  /\ [](/\ DirectKeys \cap DOMAIN cacheData = {}
        /\ DirectKeys \cap DOMAIN setLog = {}
        /\ \A k \in DOMAIN setLog :
             IsListEntry(k) => \E i \in 1..Len(k) : SubSeq(k, i, i + 6) = "\"limit\"")
  /\ [][\A k \in DOMAIN cacheData :
          (IsListEntry(k) /\ k \notin DOMAIN cacheData') => Expired(cacheData[k])]_vars

\* list_absences has stored its answer, create_absence_request has completed after
\* it, and the stored list is still there
C35_Witness ==
  \E r, q \in Calls :
    /\ r < q
    /\ pcCall[r] = "done" /\ pcCall[q] = "done"
    /\ Val(callOp[r]).name = "list_absences"
    /\ Val(callResult[r]).ok
    /\ Val(callResult[r]).source = "upstream"
    /\ Val(callOp[q]).name = "create_absence_request"
    /\ Val(callResult[q]).ok
    /\ GetAbsencesKey(Parsed("list_absences", Val(callOp[r]).args)) \in DOMAIN cacheData

\* ---------------------------------------------------------------------------
\* claims: get_employee and update_employee together
\* ---------------------------------------------------------------------------

\* call q is an update_employee that has completed successfully
UpdateDone(q) ==
  /\ pcCall[q] = "done"
  /\ Val(callOp[q]).name = "update_employee"
  /\ Val(callResult[q]).ok

\* C36: once update_employee(id) has completed successfully, what the cache holds
\* under employee:<id> was not fetched from the upstream before that update was
\* applied there.
C36_NoStaleEmployee ==
  \A q \in Calls :
    LET key == GetEmployeeKey(Val(Field(Val(callOp[q]).args, "employee_id"))) IN
    (UpdateDone(q) /\ key \in DOMAIN cacheData) =>
      cacheData[key].v >= Val(served[q]).rev

\* ---------------------------------------------------------------------------
\* claims: static key and client credentials together
\* ---------------------------------------------------------------------------

BothConfigured ==
  /\ apiKey # Undefined
  /\ clientId # Undefined
  /\ clientSecret # Undefined

\* C37: with a static key and client credentials both configured the static key is
\* used, for as long as the object lives: every header set handed out is the one of
\* the key, no token is ever asked for, granted or revoked.
C37_StaticKeyWins ==
  /\ [](BothConfigured =>
          /\ \A c \in Callers : authResult[c].kind \in {"none", "apiKey"}
          /\ \A c \in Callers : pcAuth[c] \in {"idle", "returned"}
          /\ grantRequests = 0
          /\ grantLog = <<>>
          /\ pcRevoke = "idle"
          /\ revokeResult \in {"none", "noop"})
  /\ [][BothConfigured => BothConfigured']_vars

\* both are configured; at the last instant one caller holds the key's headers, the
\* other is idle, and revokeToken has been called and found no token
C37_Witness ==
  /\ BothConfigured
  /\ \E c, d \in Callers :
       /\ authResult[c].kind = "apiKey"
       /\ c # d /\ pcAuth[d] = "idle"
  /\ revokeResult = "noop"
  /\ now = MaxNow

\* ---------------------------------------------------------------------------
\* claims: tokens that live no longer than the margin
\* ---------------------------------------------------------------------------

\* token k was served with a lifetime of at most the safety margin
ShortLived(k) == grantLog[k].expires_in <= SafetyMarginS

\* in this step caller c begins a getAuthHeaders call
CallsGetAuthHeaders(c) == pcAuth[c] = "idle" /\ pcAuth'[c] # "idle"

\* C38: a token served with a lifetime of at most 300 s is stored with a tokenExpiry
\* that is not after its issue instant; the caller that acquired it gets it, no header
\* handed out later reuses it, and every later getAuthHeaders call asks for a new one.
C38_ShortLivedNeverReused ==
  /\ []((accessToken # Undefined /\ ShortLived(Val(accessToken))) =>
          /\ tokenExpiry # Undefined
          /\ Val(tokenExpiry) <= grantLog[Val(accessToken)].issuedAt)
  /\ [](\A c \in Callers :
          (authResult[c].kind = "bearer" /\ ShortLived(authResult[c].token)) =>
            ~authResult[c].reused)
  /\ [][\A c \in Callers :
          (/\ ClientCredentialsMode
           /\ accessToken # Undefined
           /\ ShortLived(Val(accessToken))
           /\ CallsGetAuthHeaders(c)) =>
            /\ pcAuth'[c] = "posting"
            /\ grantRequests' = grantRequests + 1
            /\ authResult'[c] = authResult[c]]_vars

\* a token served for 300 s was stored and went to its caller, and at a later instant
\* a second token has been acquired in its place
C38_Witness ==
  /\ Len(grantLog) = 2
  /\ ShortLived(1)
  /\ grantLog[2].issuedAt > grantLog[1].issuedAt
  /\ accessToken = Some(2)
  /\ \E c \in Callers : authResult[c].kind = "bearer" /\ authResult[c].token = 2

\* ---------------------------------------------------------------------------
\* claims: revokeToken, disconnect and stop
\* ---------------------------------------------------------------------------

\* in this step a revokeToken() call begins
RevokeBegins ==
  /\ pcRevoke = "idle"
  /\ pcRevoke' = "posting" \/ revokeResult' # revokeResult

\* C39: revokeToken() with no token held sends nothing and changes nothing, and
\* disconnect and stop end normally; with a token held it posts the revocation, and
\* when that call fails the failure reaches the callers of disconnect and stop, the
\* token and its expiry being cleared by then.
C39_RevokePropagates ==
  /\ [][(RevokeBegins /\ accessToken = Undefined) =>
          /\ pcRevoke' = "idle"
          /\ DisconnectOutcome' = "resolved"
          /\ StopOutcome' = "stopped"
          /\ UNCHANGED <<accessToken, tokenExpiry, grantRequests, grantLog,
                         pcAuth, authResult>>]_vars
  /\ [][(RevokeBegins /\ accessToken # Undefined) => pcRevoke' = "posting"]_vars
  /\ [][(RevokeFinishes /\ revokeResult' = "failed") =>
          /\ DisconnectOutcome' = "rejected"
          /\ StopOutcome' = "rejected"
          /\ accessToken' = Undefined
          /\ tokenExpiry' = Undefined]_vars

\* the revocation of the one token granted so far has failed: stop has ended with
\* that failure, nothing is stored, and the caller that acquired the token still
\* holds its headers
C39_Witness ==
  /\ StopOutcome = "rejected"
  /\ Len(grantLog) = 1
  /\ accessToken = Undefined
  /\ tokenExpiry = Undefined
  /\ \E c \in Callers : authResult[c].kind = "bearer" /\ authResult[c].token = 1

====
